---- MODULE Spec2Model ----
(***************************************************************************)
(* State-machine model of the MCP blockchain tool server                   *)
(* (mcp-server/src/services/blockchain.rs, combined_service.rs) and of the *)
(* agent client (rig-client/src/agent.rs).                                 *)
(*                                                                         *)
(* Strings are sequences of one-character strings, so that trimming, case  *)
(* folding, substring search, hex encoding and decimal parsing are         *)
(* computed as the code computes them.  256-bit integers are sequences of  *)
(* decimal digits (most significant first, no leading zero, zero = <<0>>). *)
(***************************************************************************)
EXTENDS Integers, Sequences, FiniteSets, TLC

(* ------------------------------ characters ----------------------------- *)

UpperAZ == <<"A","B","C","D","E","F","G","H","I","J","K","L","M","N","O","P","Q","R","S","T","U","V","W","X","Y","Z">>
LowerAZ == <<"a","b","c","d","e","f","g","h","i","j","k","l","m","n","o","p","q","r","s","t","u","v","w","x","y","z">>
DigitChars36 == <<"0","1","2","3","4","5","6","7","8","9","a","b","c","d","e","f","g","h","i","j","k","l","m","n","o","p","q","r","s","t","u","v","w","x","y","z">>
HexChars == <<"0","1","2","3","4","5","6","7","8","9","a","b","c","d","e","f">>
InSeq(c, s) == \E i \in 1..Len(s) : s[i] = c
IndexOf(c, s) == CHOOSE i \in 1..Len(s) : s[i] = c
Range(s) == {s[i] : i \in 1..Len(s)}

LowerOf == [c \in Range(UpperAZ) |-> LowerAZ[IndexOf(c, UpperAZ)]]
UpperOf == [c \in Range(LowerAZ) |-> UpperAZ[IndexOf(c, LowerAZ)]]
char_to_lowercase(c) == IF c \in DOMAIN LowerOf THEN LowerOf[c] ELSE c
char_to_uppercase(c) == IF c \in DOMAIN UpperOf THEN UpperOf[c] ELSE c
to_lowercase(s) == [i \in 1..Len(s) |-> char_to_lowercase(s[i])]
to_uppercase_noop(s) == s
to_uppercase(s) == [i \in 1..Len(s) |-> char_to_uppercase(s[i])]
eq_ignore_ascii_case(a, b) == to_lowercase(a) = to_lowercase(b)

is_whitespace(c) == c \in {" ", "\t", "\n", "\r"}

RECURSIVE trim_start(_)
trim_start(s) == IF s # <<>> /\ is_whitespace(Head(s)) THEN trim_start(Tail(s)) ELSE s
RECURSIVE trim_end(_)
trim_end(s) ==
  IF s # <<>> /\ is_whitespace(s[Len(s)]) THEN trim_end(SubSeq(s, 1, Len(s) - 1)) ELSE s
trim(s) == trim_end(trim_start(s))

contains(s, pat) == \E i \in 0..(Len(s) - Len(pat)) : SubSeq(s, i + 1, i + Len(pat)) = pat
starts_with(s, pat) == Len(s) >= Len(pat) /\ SubSeq(s, 1, Len(pat)) = pat
ends_with(s, pat) == Len(s) >= Len(pat) /\ SubSeq(s, Len(s) - Len(pat) + 1, Len(s)) = pat

\* str::replace(from, "") for a one-character pattern
RECURSIVE remove_char(_, _)
remove_char(s, c) ==
  IF s = <<>> THEN <<>>
  ELSE IF Head(s) = c THEN remove_char(Tail(s), c)
  ELSE <<Head(s)>> \o remove_char(Tail(s), c)

Repeat(c, n) == [i \in 1..n |-> c]
Take(s, n) == SubSeq(s, 1, n)

\* let v = x: x is evaluated once and F is given its value
Bind(x, F(_)) == CHOOSE r \in { F(v) : v \in {x} } : TRUE

\* String::is_empty
is_empty_never(s) == FALSE
is_empty(s) == s = <<>>

(* --------------------- 256-bit integers (decimal digits) ---------------- *)

RECURSIVE Normalize(_)
Normalize(d) ==
  IF d = <<>> THEN <<0>>
  ELSE IF Head(d) = 0 /\ Len(d) > 1 THEN Normalize(Tail(d))
  ELSE d

RECURSIVE NatDigits(_)
NatDigits(n) == IF n < 10 THEN <<n>> ELSE NatDigits(n \div 10) \o <<n % 10>>

\* d * m + carry, for small m and carry
RECURSIVE MulAddAux(_, _, _)
MulAddAux(d, m, carry) ==
  IF d = <<>> THEN NatDigits(carry)
  ELSE LET x == d[Len(d)] * m + carry
       IN  MulAddAux(SubSeq(d, 1, Len(d) - 1), m, x \div 10) \o <<x % 10>>
MulAdd(d, m, a) == Normalize(MulAddAux(d, m, a))

\* long division of d by a small m: quotient digits and remainder
RECURSIVE DivAux(_, _, _)
DivAux(d, m, rem) ==
  IF d = <<>> THEN [q |-> <<>>, r |-> rem]
  ELSE LET x == rem * 10 + Head(d)
           rest == DivAux(Tail(d), m, x % m)
       IN  [q |-> <<x \div m>> \o rest.q, r |-> rest.r]
DivMod(d, m) == LET dm == DivAux(d, m, 0) IN [q |-> Normalize(dm.q), r |-> dm.r]

NumLE(a, b) ==
  \/ Len(a) < Len(b)
  \/ /\ Len(a) = Len(b)
     /\ \/ a = b
        \/ \E i \in 1..Len(a) : (\A j \in 1..(i - 1) : a[j] = b[j]) /\ a[i] < b[i]

\* 2^256 - 1
U256_MAX == <<1,1,5,7,9,2,0,8,9,2,3,7,3,1,6,1,9,5,4,2,3,5,7,0,9,8,5,0,0,8,6,8,7,9,0,7,8,5,3,2,6,9,9,8,4,6,6,5,6,4,0,5,6,4,0,3,9,4,5,7,5,8,4,0,0,7,9,1,3,1,2,9,6,3,9,9,3,5>>
\* 2^128 - 1
U128_MAX == <<3,4,0,2,8,2,3,6,6,9,2,0,9,3,8,4,6,3,4,6,3,3,7,4,6,0,7,4,3,1,7,6,8,2,1,1,4,5,5>>
U256_ZERO == <<0>>

\* a < b for digit sequences of equal length
DigitsLess(a, b) ==
  \E i \in 1..Len(a) : (\A j \in 1..(i - 1) : a[j] = b[j]) /\ a[i] < b[i]
\* a - b for a >= b: a digit borrows when what is right of it is less in a
\* than in b
Sub(a, b) ==
  LET n == Len(a)
      bb == Repeat(0, n - Len(b)) \o b
      borrow(i) == IF DigitsLess(SubSeq(a, i + 1, n), SubSeq(bb, i + 1, n)) THEN 1 ELSE 0
  IN  Normalize([i \in 1..n |-> (a[i] - bb[i] - borrow(i) + 10) % 10])

\* how many times m goes into x (at most nine times), and what is left
RECURSIVE DivStep(_, _, _)
DivStep(x, m, k) ==
  IF NumLE(m, x) THEN DivStep(Sub(x, m), m, k + 1) ELSE [k |-> k, r |-> x]

\* long division of d by a divisor m > 0 of any size
RECURSIVE LongDivAux(_, _, _)
LongDivAux(d, m, rem) ==
  IF d = <<>> THEN [q |-> <<>>, r |-> rem]
  ELSE LET step == DivStep(Normalize(rem \o <<Head(d)>>), m, 0)
           rest == LongDivAux(Tail(d), m, step.r)
       IN  [q |-> <<step.k>> \o rest.q, r |-> rest.r]
\* the same division taken eight digits at a time, which bounds the depth of
\* the evaluation
RECURSIVE LongDivBlocks(_, _, _)
LongDivBlocks(d, m, rem) ==
  IF Len(d) <= 8 THEN LongDivAux(d, m, rem)
  ELSE LET first == LongDivAux(SubSeq(d, 1, 8), m, rem)
           rest == LongDivBlocks(SubSeq(d, 9, Len(d)), m, first.r)
       IN  [q |-> first.q \o rest.q, r |-> rest.r]
LongDiv(d, m) == LET dm == LongDivBlocks(d, m, <<0>>) IN [q |-> Normalize(dm.q), r |-> dm.r]

\* 2^256
U256_MODULUS == <<1,1,5,7,9,2,0,8,9,2,3,7,3,1,6,1,9,5,4,2,3,5,7,0,9,8,5,0,0,8,6,8,7,9,0,7,8,5,3,2,6,9,9,8,4,6,6,5,6,4,0,5,6,4,0,3,9,4,5,7,5,8,4,0,0,7,9,1,3,1,2,9,6,3,9,9,3,6>>
\* U256 / and %
U256_div(a, m) == LongDiv(a, m).q
U256_rem(a, m) == LongDiv(a, m).r
\* U256::from(10).pow(exp): the power wraps at 2^256
U256_pow10(exp) == U256_rem(<<1>> \o Repeat(0, exp), U256_MODULUS)

\* Display for U256: decimal characters
u256_to_string(d) == [i \in 1..Len(d) |-> DigitChars36[d[i] + 1]]

\* ruint from_str_radix: case-insensitive digits 0-9a-z, underscore ignored, any
\* other character or a digit >= radix is an error, as is overflow; the
\* empty digit string is zero.
DigitValueOf == [c \in Range(DigitChars36) |-> IndexOf(c, DigitChars36) - 1]
digit_value(c) == DigitValueOf[char_to_lowercase(c)]
RECURSIVE from_base_be(_, _, _)
from_base_be(chars, radix, acc) ==
  IF chars = <<>> THEN acc
  ELSE from_base_be(Tail(chars), radix, MulAdd(acc, radix, digit_value(Head(chars))))
from_str_radix(src, radix) ==
  LET digits == remove_char(src, "_")
      valid == \A i \in 1..Len(digits) :
                 /\ char_to_lowercase(digits[i]) \in DOMAIN DigitValueOf
                 /\ digit_value(digits[i]) < radix
      \* more digits than any 256-bit value has in this radix: overflow
      tooLong == Len(digits) > 300
      value == from_base_be(digits, radix, U256_ZERO)
  IN  IF ~valid \/ tooLong THEN [ok |-> FALSE, value |-> U256_ZERO]
      ELSE IF ~NumLE(value, U256_MAX) THEN [ok |-> FALSE, value |-> U256_ZERO]
      ELSE [ok |-> TRUE, value |-> value]

\* U256::from_str: radix chosen by a two-character prefix
U256_from_str(src) ==
  LET prefix == IF Len(src) >= 2 THEN Take(src, 2) ELSE <<>>
      rest == IF Len(src) >= 2 THEN SubSeq(src, 3, Len(src)) ELSE src
  IN  IF prefix \in {<<"0","x">>, <<"0","X">>} THEN from_str_radix(rest, 16)
      ELSE IF prefix \in {<<"0","o">>, <<"0","O">>} THEN from_str_radix(rest, 8)
      ELSE IF prefix \in {<<"0","b">>, <<"0","B">>} THEN from_str_radix(rest, 2)
      ELSE from_str_radix(src, 10)

(* ------------------------------ hex and bytes --------------------------- *)

HexDigitSet == Range(HexChars)
is_hex_digit(c) == char_to_lowercase(c) \in HexDigitSet
hex_value(c) == DigitValueOf[char_to_lowercase(c)]
strip_0x(s) == IF starts_with(s, <<"0","x">>) THEN SubSeq(s, 3, Len(s)) ELSE s

\* hex::decode: optional 0x prefix, even number of hex digits
hex_decode(s) ==
  Bind(strip_0x(s), LAMBDA h :
    IF Len(h) % 2 = 0 /\ \A i \in 1..Len(h) : is_hex_digit(h[i])
    THEN [ok |-> TRUE,
          bytes |-> [i \in 1..(Len(h) \div 2) |->
                       16 * hex_value(h[2 * i - 1]) + hex_value(h[2 * i])]]
    ELSE [ok |-> FALSE, bytes |-> <<>>])

\* the bytes of an ASCII string
ascii_code(c) ==
  IF c \in Range(SubSeq(DigitChars36, 1, 10)) THEN 48 + DigitValueOf[c]
  ELSE IF c \in DOMAIN LowerOf THEN 65 + DigitValueOf[LowerOf[c]] - 10
  ELSE IF c \in DOMAIN UpperOf THEN 97 + DigitValueOf[c] - 10
  ELSE 32
as_bytes(s) == [i \in 1..Len(s) |-> ascii_code(s[i])]

\* hex::encode: two lower-case hex digits per byte, no prefix
hex_encode(bytes) ==
  [i \in 1..(2 * Len(bytes)) |->
     IF i % 2 = 1 THEN HexChars[(bytes[(i + 1) \div 2] \div 16) + 1]
     ELSE HexChars[(bytes[i \div 2] % 16) + 1]]

\* FixedBytes<N>::from_str (Address: N = 20, TxHash: N = 32): the value is
\* kept as its 2N lower-case hex digits
FixedBytes_from_str(s, n) ==
  LET h == strip_0x(s)
  IN  IF Len(h) = 2 * n /\ \A i \in 1..Len(h) : is_hex_digit(h[i])
      THEN [ok |-> TRUE, value |-> to_lowercase(h)]
      ELSE [ok |-> FALSE, value |-> <<>>]
Address_from_str(s) == FixedBytes_from_str(s, 20)
TxHash_from_str(s) == FixedBytes_from_str(s, 32)


(* ============================ MCP server state ========================== *)

VARIABLES
  alice_private_key,  \* BlockchainService.alice_private_key (from the environment)
  server,             \* which service answers tool calls
  node,               \* the Ethereum node: what it knows of each transaction
  request,            \* the tool call in flight to the server, if any
  last                \* the tool call just handled: request, response, Cast::send calls

server_vars == <<alice_private_key, server, node, request, last>>

\* the state of the rig client (BlockchainAgent)
VARIABLES
  rag_system,         \* BlockchainAgent.rag_system: None, or Some(UniswapRagSystem)
  rag_initialized,    \* whether an initialize_rag_system call has returned Ok
  claude_prompts,     \* number of prompts sent to Claude so far
  agent_last          \* the call just made: input, classification, prompt, answer

agent_vars == <<rag_system, rag_initialized, claude_prompts, agent_last>>

\* the state of the documentation libraries of the rig client, used directly
VARIABLES
  doc_store,          \* InMemoryDocStore.documents
  uniswap_rag,        \* a UniswapRagSystem
  lib_last            \* the call just made on them and what it returned

lib_vars == <<doc_store, uniswap_rag, lib_last>>

\* number of transactions the node can hold before sending is disabled
MaxTx == 1
\* largest number of seconds a transaction still needs when it is submitted
MaxDelay == 75

NoneV == [some |-> FALSE, v |-> <<>>]
Some(x) == [some |-> TRUE, v |-> x]

(* ------------------------------- accounts ------------------------------- *)

available_addresses == <<
  <<"0","x","f","3","9","F","d","6","e","5","1","a","a","d","8","8","F","6","F","4","c","e","6","a","B","8","8","2","7","2","7","9","c","f","f","F","b","9","2","2","6","6">>,
  <<"0","x","7","0","9","9","7","9","7","0","C","5","1","8","1","2","d","c","3","A","0","1","0","C","7","d","0","1","b","5","0","e","0","d","1","7","d","c","7","9","C","8">>,
  <<"0","x","3","C","4","4","C","d","D","d","B","6","a","9","0","0","f","a","2","b","5","8","5","d","d","2","9","9","e","0","3","d","1","2","F","A","4","2","9","3","B","C">>,
  <<"0","x","9","0","F","7","9","b","f","6","E","B","2","c","4","f","8","7","0","3","6","5","E","7","8","5","9","8","2","E","1","f","1","0","1","E","9","3","b","9","0","6">>,
  <<"0","x","1","5","d","3","4","A","A","f","5","4","2","6","7","D","B","7","D","7","c","3","6","7","8","3","9","A","A","f","7","1","A","0","0","a","2","C","6","A","6","5">>,
  <<"0","x","9","9","6","5","5","0","7","D","1","a","5","5","b","c","C","2","6","9","5","C","5","8","b","a","1","6","F","B","3","7","d","8","1","9","B","0","A","4","d","c">>,
  <<"0","x","9","7","6","E","A","7","4","0","2","6","E","7","2","6","5","5","4","d","B","6","5","7","f","A","5","4","7","6","3","a","b","d","0","C","3","a","0","a","a","9">>,
  <<"0","x","1","4","d","C","7","9","9","6","4","d","a","2","C","0","8","b","2","3","6","9","8","B","3","D","3","c","c","7","C","a","3","2","1","9","3","d","9","9","5","5">>,
  <<"0","x","2","3","6","1","8","e","8","1","E","3","f","5","c","d","F","7","f","5","4","C","3","d","6","5","f","7","F","B","c","0","a","B","f","5","B","2","1","E","8","f">>,
  <<"0","x","a","0","E","e","7","A","1","4","2","d","2","6","7","C","1","f","3","6","7","1","4","E","4","a","8","F","7","5","6","1","2","F","2","0","a","7","9","7","2","0">> >>

alice_address == Address_from_str(available_addresses[1]).value
bob_address_account0 == Address_from_str(available_addresses[1]).value
bob_address == Address_from_str(available_addresses[2]).value

\* load_anvil_accounts: the Debug form of an address is its checksummed hex
\* string, which is the literal the address was parsed from
load_anvil_accounts(addresses) ==
  [i \in 1..Len(addresses) |->
     [index |-> i - 1, address |-> addresses[i], private_key |-> NoneV]]
anvil_accounts == load_anvil_accounts(available_addresses)

(* ----------------------- validate_recipient_address --------------------- *)

known_accounts == <<
  [name |-> <<"a","c","c","o","u","n","t","0">>, index |-> 0], [name |-> <<"a","c","c","o","u","n","t","1">>, index |-> 1],
  [name |-> <<"a","c","c","o","u","n","t","2">>, index |-> 2], [name |-> <<"a","c","c","o","u","n","t","3">>, index |-> 3],
  [name |-> <<"a","c","c","o","u","n","t","4">>, index |-> 4], [name |-> <<"a","c","c","o","u","n","t","5">>, index |-> 5],
  [name |-> <<"a","c","c","o","u","n","t","6">>, index |-> 6], [name |-> <<"a","c","c","o","u","n","t","7">>, index |-> 7],
  [name |-> <<"a","c","c","o","u","n","t","8">>, index |-> 8], [name |-> <<"a","c","c","o","u","n","t","9">>, index |-> 9] >>

AnvilAccountType == <<"Anvil Account 0", "Anvil Account 1", "Anvil Account 2",
  "Anvil Account 3", "Anvil Account 4", "Anvil Account 5", "Anvil Account 6",
  "Anvil Account 7", "Anvil Account 8", "Anvil Account 9">>

ValidatedErr == [ok |-> FALSE, resolved_address |-> <<>>, address_type |-> "", asked_ens |-> FALSE]
ValidatedOk(addr, type, asked) ==
  [ok |-> TRUE, resolved_address |-> addr, address_type |-> type, asked_ens |-> asked]

\* the entries of known_accounts that the loop of step 3 accepts
known_account_hits(lowercase_input) ==
  {k \in 1..Len(known_accounts) :
     /\ lowercase_input = known_accounts[k].name
     /\ known_accounts[k].index + 1 <= Len(anvil_accounts)
     /\ Address_from_str(anvil_accounts[known_accounts[k].index + 1].address).ok}

\* "Check if it's an ENS name"
is_ens_name_eth_only(trimmed_input) == ends_with(trimmed_input, <<".","e","t","h">>)
is_ens_name(trimmed_input) ==
  ends_with(trimmed_input, <<".","e","t","h">>) \/ contains(trimmed_input, <<".">>)

\* ens: what NameOrAddress::resolve answers for a name (an address or an error)
validate_recipient_address(address_input, ens) ==
  LET trimmed_input == trim(address_input)
      eth_address == Address_from_str(trimmed_input)
      lowercase_input == to_lowercase(trimmed_input)
      hits == known_account_hits(lowercase_input)
  IN  IF eth_address.ok
      THEN ValidatedOk(eth_address.value, "Ethereum Address", FALSE)
      ELSE IF is_ens_name(trimmed_input)
      THEN IF ens.some
           THEN ValidatedOk(ens.v, "ENS Name (resolved)", TRUE)
           ELSE [ValidatedErr EXCEPT !.asked_ens = TRUE]
      ELSE IF lowercase_input = <<"a","l","i","c","e">>
      THEN ValidatedOk(alice_address, "Alice (Account 0 - Default Sender)", FALSE)
      ELSE IF lowercase_input = <<"b","o","b">>
      THEN ValidatedOk(bob_address, "Bob (Account 1 - Default Recipient)", FALSE)
      ELSE IF hits # {}
      THEN LET k == CHOOSE k \in hits : \A j \in hits : k <= j
               account == anvil_accounts[known_accounts[k].index + 1]
           IN  ValidatedOk(Address_from_str(account.address).value,
                           AnvilAccountType[known_accounts[k].index + 1], FALSE)
      ELSE ValidatedErr

(* --------------------------------- node --------------------------------- *)

\* a transaction slot: st is "unsent", "pending", "mined" or "dropped";
\* delay is the number of seconds until a pending transaction is mined
\* (-1: never); success is the status its receipt carries
Slots == 1..MaxTx
UnsentSlot == [st |-> "unsent", delay |-> 0, success |-> FALSE]
Never == -1

\* the hash of the transaction in slot h: 63 zeros and the digit h
TxHashOfSlot(h) == Repeat("0", 63) \o <<DigitChars36[h + 1]>>
SlotOfHash(hash) == {h \in Slots : TxHashOfSlot(h) = hash}

\* seconds pass: pending transactions whose time has come are mined
Advance(n, elapsed) ==
  [h \in Slots |->
     IF n[h].st = "pending" /\ n[h].delay # Never
     THEN IF n[h].delay <= elapsed
          THEN [n[h] EXCEPT !.st = "mined", !.delay = 0]
          ELSE [n[h] EXCEPT !.delay = n[h].delay - elapsed]
     ELSE n[h]]

\* PendingTransactionBuilder::with_timeout(..).get_receipt(): the receipt if
\* the transaction is mined within timeout_secs, otherwise an error; an RPC
\* failure is an error too
get_receipt(n, hash, timeout_secs, rpc_ok) ==
  LET hs == SlotOfHash(hash)
      h == CHOOSE x \in hs : TRUE
  IN  IF ~rpc_ok THEN [ok |-> FALSE, why |-> "rpc", success |-> FALSE, node |-> n]
      ELSE IF hs # {} /\ n[h].st = "mined"
      THEN [ok |-> TRUE, why |-> "", success |-> n[h].success, node |-> n]
      ELSE IF hs # {} /\ n[h].st = "pending" /\ n[h].delay # Never /\ n[h].delay <= timeout_secs
      THEN [ok |-> TRUE, why |-> "", success |-> n[h].success, node |-> Advance(n, n[h].delay)]
      ELSE [ok |-> FALSE, why |-> "timeout", success |-> FALSE, node |-> Advance(n, timeout_secs)]

\* wait_for_transaction_confirmation
wait_for_transaction_confirmation(n, tx_hash, timeout_secs, rpc_ok) ==
  get_receipt(n, tx_hash, timeout_secs, rpc_ok)

(* ------------------------------- responses ------------------------------ *)

\* Option<u64>::None
NoTimeout == [some |-> FALSE, v |-> 0]
NoRequest == [tool |-> "", to |-> <<>>, amount |-> <<>>, from_token |-> <<>>,
              to_token |-> <<>>, tx_hash |-> <<>>, timeout |-> NoTimeout,
              token_address |-> <<>>, account_address |-> <<>>]
\* what the handler met outside the server: the answer to a name resolution,
\* the outcome of each RPC request, the node's record of the transaction
\* when the call began
NoEnv == [ens |-> "", receipt_rpc |-> "", wait |-> "", by_hash_rpc |-> "",
          before |-> UnsentSlot]
NoCall == [tool |-> "", result |-> "", text |-> "", status |-> "", req |-> NoRequest,
           validated |-> ValidatedErr, sends |-> <<>>, eth_calls |-> <<>>,
           accounts |-> <<>>, advises |-> {}, env |-> NoEnv, slot |-> 0,
           formatted_balance |-> <<>>, balance |-> <<>>, symbol |-> <<>>,
           decimals |-> 0]

TransactionRequest(to, value, input, from) ==
  [to |-> to, value |-> value, input |-> input, from |-> from]

FreeSlots == {h \in Slots : node[h].st = "unsent"}

(* -------------------------------- send_eth ------------------------------ *)

\* "Parse amount to wei"
send_eth_amount_wei(amount) == U256_from_str(remove_char(amount, ".") \o Repeat("0", 18))

NoTx == TransactionRequest(<<>>, NoneV, NoneV, <<>>)
\* what a handler has decided when it reaches (or returns before) Cast::send
Return(call) == [done |-> TRUE, call |-> call, tx |-> NoTx,
                 sent_text |-> "", confirmed_text |-> "", failed_text |-> ""]
Submit(call, tx, sent_text, confirmed_text, failed_text) ==
  [done |-> FALSE, call |-> call, tx |-> tx, sent_text |-> sent_text,
   confirmed_text |-> confirmed_text, failed_text |-> failed_text]

\* Cast::send, then wait_for_transaction_confirmation(tx_hash, 30) and the
\* response built from its result.  h: the slot the node gives the
\* transaction; fate: what becomes of the transaction
send_and_confirm(n, h, p, fate) ==
  LET sent == [n EXCEPT ![h] = [st |-> "pending", delay |-> fate.delay,
                                success |-> fate.success]]
      conf == wait_for_transaction_confirmation(sent, TxHashOfSlot(h), 30, fate.wait_rpc_ok)
  IN  IF ~fate.send_ok
      THEN [node |-> n, last |-> [p.call EXCEPT !.result = "internal_error",
                                                !.sends = <<p.tx>>, !.text = p.failed_text]]
      ELSE IF conf.ok
      THEN [node |-> conf.node,
            last |-> [p.call EXCEPT !.result = "ok", !.sends = <<p.tx>>, !.slot = h,
                        !.text = p.confirmed_text,
                        !.status = IF conf.success THEN "SUCCESS" ELSE "FAILED"]]
      ELSE [node |-> conf.node,
            last |-> [p.call EXCEPT !.result = "ok", !.sends = <<p.tx>>, !.slot = h,
                        !.text = p.sent_text, !.advises = {"check_transaction_status"}]]

\* send_eth up to Cast::send.  req: the TransferRequest; ens: the answer to a
\* name resolution
send_eth(key, req, ens) ==
  LET validated_recipient == validate_recipient_address(req.to, ens)
      call == [NoCall EXCEPT !.tool = "send_eth", !.req = req,
                             !.validated = validated_recipient,
                             !.env.ens = IF ens.some THEN "resolves" ELSE "fails"]
      amount_wei == send_eth_amount_wei(req.amount)
      tx == TransactionRequest(validated_recipient.resolved_address,
                               Some(amount_wei.value), NoneV, alice_address)
  IN  IF ~validated_recipient.ok
      THEN Return([call EXCEPT !.result = "invalid_params"])
      ELSE IF is_empty(key)
      THEN Return([call EXCEPT !.result = "ok",
                     !.text = "ERROR: Cannot send transaction - private key not available."])
      ELSE IF ~amount_wei.ok
      THEN Return([call EXCEPT !.result = "invalid_params", !.text = "Failed to parse amount"])
      ELSE Submit(call, tx, "ETH Transfer Sent", "ETH Transfer", "Failed to send transaction")

(* ------------------------------ ABI encoding ---------------------------- *)

RECURSIVE HexDigitsOf(_)
HexDigitsOf(d) ==
  IF d = U256_ZERO THEN <<>>
  ELSE LET dm == DivMod(d, 16) IN HexDigitsOf(dm.q) \o <<HexChars[dm.r + 1]>>

\* one 32-byte ABI word, as 64 hex digits
abi_uint256(d) == LET hx == HexDigitsOf(d) IN Repeat("0", 64 - Len(hx)) \o hx
abi_address(a) == Repeat("0", 24) \o a

\* Display for Address ("0x" and 40 hex digits; the checksum case is not kept)
address_to_string(a) == <<"0","x">> \o a

\* the elements of "[a,b,...]"
RECURSIVE split_commas(_)
split_commas(s) ==
  IF ~InSeq(",", s) THEN <<s>>
  ELSE LET i == CHOOSE k \in 1..Len(s) : s[k] = "," /\ \A j \in 1..(k - 1) : s[j] # ","
       IN  <<SubSeq(s, 1, i - 1)>> \o split_commas(SubSeq(s, i + 1, Len(s)))
parse_array(s) ==
  IF Len(s) >= 2 /\ Head(s) = "[" /\ s[Len(s)] = "]"
  THEN IF Len(s) = 2 THEN [ok |-> TRUE, items |-> <<>>]
       ELSE [ok |-> TRUE, items |-> split_commas(SubSeq(s, 2, Len(s) - 1))]
  ELSE [ok |-> FALSE, items |-> <<>>]

RECURSIVE Concat(_)
Concat(ss) == IF ss = <<>> THEN <<>> ELSE Head(ss) \o Concat(Tail(ss))

Selector == [sig \in {"deposit()", "withdraw(uint256)", "balanceOf(address)", "symbol()",
                      "decimals()",
                      "swapExactETHForTokens(uint256,address[],address,uint256)"} |->
  CASE sig = "deposit()" -> <<"d","0","e","3","0","d","b","0">>
    [] sig = "withdraw(uint256)" -> <<"2","e","1","a","7","d","4","d">>
    [] sig = "balanceOf(address)" -> <<"7","0","a","0","8","2","3","1">>
    [] sig = "symbol()" -> <<"9","5","d","8","9","b","4","1">>
    [] sig = "decimals()" -> <<"3","1","3","c","e","5","6","7">>
    [] sig = "swapExactETHForTokens(uint256,address[],address,uint256)" -> <<"7","f","f","3","6","a","b","5">>]

\* SimpleCast::calldata_encode: "0x", the selector and the ABI-encoded
\* arguments, as a hex string
calldata_encode(sig, args) ==
  CASE sig \in {"deposit()", "symbol()", "decimals()"} ->
         [ok |-> TRUE, hex |-> <<"0","x">> \o Selector[sig]]
    [] sig = "withdraw(uint256)" ->
         LET a == U256_from_str(args[1])
         IN  IF a.ok THEN [ok |-> TRUE, hex |-> <<"0","x">> \o Selector[sig] \o abi_uint256(a.value)]
             ELSE [ok |-> FALSE, hex |-> <<>>]
    [] sig = "balanceOf(address)" ->
         LET a == Address_from_str(args[1])
         IN  IF a.ok THEN [ok |-> TRUE, hex |-> <<"0","x">> \o Selector[sig] \o abi_address(a.value)]
             ELSE [ok |-> FALSE, hex |-> <<>>]
    [] sig = "swapExactETHForTokens(uint256,address[],address,uint256)" ->
         LET amount_out_min == U256_from_str(args[1])
             path == parse_array(args[2])
             items == [i \in 1..Len(path.items) |-> Address_from_str(path.items[i])]
             to == Address_from_str(args[3])
             deadline == U256_from_str(args[4])
         IN  IF /\ amount_out_min.ok /\ path.ok /\ to.ok /\ deadline.ok
                /\ \A i \in 1..Len(items) : items[i].ok
             THEN [ok |-> TRUE,
                   hex |-> <<"0","x">> \o Selector[sig]
                           \o abi_uint256(amount_out_min.value)
                           \o abi_uint256(<<1, 2, 8>>)
                           \o abi_address(to.value)
                           \o abi_uint256(deadline.value)
                           \o abi_uint256(NatDigits(Len(items)))
                           \o Concat([i \in 1..Len(items) |-> abi_address(items[i].value)])]
             ELSE [ok |-> FALSE, hex |-> <<>>]

\* Bytes::from_str
Bytes_from_str(s) == hex_decode(s)

(* ------------------------------- swap_tokens ---------------------------- *)

router_address == <<"0","x","7","a","2","5","0","d","5","6","3","0","B","4","c","F","5","3","9","7","3","9","d","F","2","C","5","d","A","c","b","4","c","6","5","9","F","2","4","8","8","D">>
weth_address == <<"0","x","C","0","2","a","a","A","3","9","b","2","2","3","F","E","8","D","0","A","0","e","5","C","4","F","2","7","e","A","D","9","0","8","3","C","7","5","6","C","c","2">>
default_deadline_secs == 300

token_addresses == <<
  [symbol |-> <<"E","T","H">>, addr |-> <<"0","x","C","0","2","a","a","A","3","9","b","2","2","3","F","E","8","D","0","A","0","e","5","C","4","F","2","7","e","A","D","9","0","8","3","C","7","5","6","C","c","2">>],
  [symbol |-> <<"W","E","T","H">>, addr |-> <<"0","x","C","0","2","a","a","A","3","9","b","2","2","3","F","E","8","D","0","A","0","e","5","C","4","F","2","7","e","A","D","9","0","8","3","C","7","5","6","C","c","2">>],
  [symbol |-> <<"U","S","D","C">>, addr |-> <<"0","x","A","0","b","8","6","9","9","1","c","6","2","1","8","b","3","6","c","1","d","1","9","D","4","a","2","e","9","E","b","0","c","E","3","6","0","6","e","B","4","8">>],
  [symbol |-> <<"U","S","D","T">>, addr |-> <<"0","x","d","A","C","1","7","F","9","5","8","D","2","e","e","5","2","3","a","2","2","0","6","2","0","6","9","9","4","5","9","7","C","1","3","D","8","3","1","e","c","7">>],
  [symbol |-> <<"D","A","I">>, addr |-> <<"0","x","6","B","1","7","5","4","7","4","E","8","9","0","9","4","C","4","4","D","a","9","8","b","9","5","4","E","e","d","e","A","C","4","9","5","2","7","1","d","0","F">>],
  [symbol |-> <<"L","I","N","K">>, addr |-> <<"0","x","5","1","4","9","1","0","7","7","1","A","F","9","C","a","6","5","6","a","f","8","4","0","d","f","f","8","3","E","8","2","6","4","E","c","F","9","8","6","C","A">>],
  [symbol |-> <<"U","N","I">>, addr |-> <<"0","x","1","f","9","8","4","0","a","8","5","d","5","a","F","5","b","f","1","D","1","7","6","2","F","9","2","5","B","D","A","D","d","C","4","2","0","1","F","9","8","4">>] >>

\* one side of get_token_addresses: the first table entry whose symbol
\* matches ignoring ASCII case, otherwise the token parsed as an address
token_address_of(token) ==
  LET hits == {i \in 1..Len(token_addresses) :
                 eq_ignore_ascii_case(token_addresses[i].symbol, token)}
      i == CHOOSE x \in hits : \A y \in hits : x <= y
  IN  IF hits # {} THEN Address_from_str(token_addresses[i].addr)
      ELSE Address_from_str(token)

get_token_addresses(from_token, to_token) ==
  LET from_addr == token_address_of(from_token)
      to_addr == token_address_of(to_token)
  IN  IF from_addr.ok /\ to_addr.ok
      THEN [ok |-> TRUE, from |-> from_addr.value, to |-> to_addr.value]
      ELSE [ok |-> FALSE, from |-> <<>>, to |-> <<>>]

\* str::parse::<f64> for plain decimal text: an optional sign, digits with at
\* most one '.', at least one digit (exponents, "inf" and "nan" do not occur
\* in the inputs of this model)
parse_f64(s) ==
  LET signed == s # <<>> /\ Head(s) \in {"-", "+"}
      body == IF signed THEN Tail(s) ELSE s
      dots == {i \in 1..Len(body) : body[i] = "."}
      dot == CHOOSE i \in dots : TRUE
      int_part == IF dots = {} THEN body ELSE SubSeq(body, 1, dot - 1)
      frac_part == IF dots = {} THEN <<>> ELSE SubSeq(body, dot + 1, Len(body))
      digits == int_part \o frac_part
  IN  [ok |-> /\ Cardinality(dots) <= 1
              /\ digits # <<>>
              /\ \A i \in 1..Len(digits) : digits[i] \in Range(SubSeq(DigitChars36, 1, 10)),
       negative |-> s # <<>> /\ Head(s) = "-",
       int_part |-> int_part, frac_part |-> frac_part]

\* (amount_float * 1e18) as u128: the cast truncates toward zero and
\* saturates (a negative number becomes 0).  The product is computed
\* exactly here; the inputs of this model are amounts for which the f64
\* product is exact.
parse_amount_to_wei(amount) ==
  LET f == parse_f64(amount)
      frac18 == IF Len(f.frac_part) >= 18 THEN Take(f.frac_part, 18)
                ELSE f.frac_part \o Repeat("0", 18 - Len(f.frac_part))
      chars == f.int_part \o frac18
      wei == Normalize([i \in 1..Len(chars) |-> DigitValueOf[chars[i]]])
  IN  IF ~f.ok THEN [ok |-> FALSE, value |-> U256_ZERO]
      ELSE IF f.negative THEN [ok |-> TRUE, value |-> U256_ZERO]
      ELSE IF ~NumLE(wei, U128_MAX) THEN [ok |-> TRUE, value |-> U128_MAX]
      ELSE [ok |-> TRUE, value |-> wei]

\* the hex text of the bytes of the hex string calldata_encode returns
encode_swap_exact_eth_for_tokens(amount_out_min, path, to, deadline) ==
  LET path_strings == [i \in 1..Len(path) |-> address_to_string(path[i])]
      joined == Concat([i \in 1..Len(path) |->
                          IF i = 1 THEN path_strings[i] ELSE <<",">> \o path_strings[i]])
  IN  Bind(<< u256_to_string(amount_out_min), <<"[">> \o joined \o <<"]">>,
              address_to_string(to), u256_to_string(deadline) >>, LAMBDA args :
      Bind(calldata_encode("swapExactETHForTokens(uint256,address[],address,uint256)", args),
           LAMBDA calldata :
        IF calldata.ok
        THEN [ok |-> TRUE, hex |-> <<"0","x">> \o hex_encode(as_bytes(calldata.hex))]
        ELSE [ok |-> FALSE, hex |-> <<>>]))

swap_eth_to_weth_direct(call, amount) ==
  Bind(parse_amount_to_wei(amount), LAMBDA amount_wei :
    IF ~amount_wei.ok
    THEN Return([call EXCEPT !.result = "invalid_params", !.text = "Invalid amount"])
    ELSE Bind(calldata_encode("deposit()", <<>>), LAMBDA calldata :
         Bind(hex_decode(SubSeq(calldata.hex, 3, Len(calldata.hex))), LAMBDA input :
           Submit(call,
                  TransactionRequest(Address_from_str(weth_address).value,
                                     Some(amount_wei.value), Some(input.bytes), alice_address),
                  "ETH to WETH Swap Sent (Direct)", "ETH to WETH Swap (Direct)",
                  "Failed to send ETH to WETH transaction"))))

swap_weth_to_eth_direct(call, amount) ==
  Bind(parse_amount_to_wei(amount), LAMBDA amount_wei :
    IF ~amount_wei.ok
    THEN Return([call EXCEPT !.result = "invalid_params", !.text = "Invalid amount"])
    ELSE Bind(<<u256_to_string(amount_wei.value)>>, LAMBDA args :
         Bind(calldata_encode("withdraw(uint256)", args), LAMBDA calldata :
         Bind(hex_decode(SubSeq(calldata.hex, 3, Len(calldata.hex))), LAMBDA input :
           Submit(call,
                  TransactionRequest(Address_from_str(weth_address).value,
                                     NoneV, Some(input.bytes), alice_address),
                  "WETH to ETH Swap Sent (Direct)", "WETH to ETH Swap (Direct)",
                  "Failed to send WETH to ETH transaction")))))

\* swap_tokens up to Cast::send.  now: the system clock, in seconds since the
\* epoch
swap_tokens(key, req, now) ==
  LET call == [NoCall EXCEPT !.tool = "swap_tokens", !.req = req]
  IN  IF is_empty(key)
      THEN Return([call EXCEPT !.result = "ok",
                     !.text = "ERROR: Cannot execute swap - private key not available."])
      ELSE IF to_uppercase(req.from_token) = <<"E","T","H">> /\ to_uppercase(req.to_token) = <<"W","E","T","H">>
      THEN swap_eth_to_weth_direct(call, req.amount)
      ELSE IF to_uppercase(req.from_token) = <<"W","E","T","H">> /\ to_uppercase(req.to_token) = <<"E","T","H">>
      THEN swap_weth_to_eth_direct(call, req.amount)
      ELSE
        Bind(get_token_addresses(req.from_token, req.to_token), LAMBDA tokens :
        IF ~tokens.ok
        THEN Return([call EXCEPT !.result = "invalid_params", !.text = "Unknown token"])
        ELSE
        Bind(parse_amount_to_wei(req.amount), LAMBDA amount_wei :
        IF ~amount_wei.ok
        THEN Return([call EXCEPT !.result = "invalid_params", !.text = "Invalid amount"])
        ELSE
        Bind(encode_swap_exact_eth_for_tokens(U256_ZERO, <<tokens.from, tokens.to>>,
               alice_address, NatDigits(now + default_deadline_secs)), LAMBDA calldata :
        IF ~calldata.ok
        THEN Return([call EXCEPT !.result = "internal_error",
                                 !.text = "Failed to encode swap call"])
        ELSE
        Bind(Bytes_from_str(calldata.hex), LAMBDA input :
        IF ~input.ok
        THEN Return([call EXCEPT !.result = "internal_error",
                                 !.text = "Failed to parse calldata"])
        ELSE Submit(call,
                    TransactionRequest(Address_from_str(router_address).value,
                                       Some(amount_wei.value), Some(input.bytes),
                                       alice_address),
                    "Token Swap Sent", "Token Swap", "Failed to send swap transaction")))))

(* ------------------------------ token_balance --------------------------- *)

\* get_token_info: a failed or short symbol() answer gives "UNKNOWN", a failed
\* or short decimals() answer gives 18; the function never fails
get_token_info(symbol_answer, decimals_answer) ==
  [symbol |-> IF symbol_answer.some THEN symbol_answer.v ELSE <<"U","N","K","N","O","W","N">>,
   decimals |-> IF decimals_answer.some THEN decimals_answer.v ELSE 18]

\* {:0width$} on a U256: zeros on the left up to the width, never truncating
pad_zero_none(s, width) == s
pad_zero(s, width) ==
  IF Len(s) < width THEN Repeat("0", width - Len(s)) \o s ELSE s

format_balance(balance, decimals, symbol) ==
  IF decimals > 0
  THEN LET divisor == U256_pow10(decimals)
           whole == U256_div(balance, divisor)
           fraction == U256_rem(balance, divisor)
       IN  u256_to_string(whole) \o <<".">> \o pad_zero(u256_to_string(fraction), decimals)
             \o <<" ">> \o symbol
  ELSE u256_to_string(balance) \o <<" ">> \o symbol

\* call_ok: the balanceOf eth_call succeeded; balance_answer is None when the
\* returned data is shorter than 32 bytes
token_balance(req, call_ok, balance_answer, symbol_answer, decimals_answer) ==
  LET call == [NoCall EXCEPT !.tool = "token_balance", !.req = req]
  IN
  IF ~Address_from_str(req.token_address).ok
  THEN [call EXCEPT !.result = "invalid_params", !.text = "Invalid token address"]
  ELSE IF ~Address_from_str(req.account_address).ok
  THEN [call EXCEPT !.result = "invalid_params", !.text = "Invalid account address"]
  ELSE IF ~call_ok
  THEN [call EXCEPT !.result = "internal_error", !.text = "Failed to call token contract"]
  ELSE LET balance == IF balance_answer.some THEN balance_answer.v ELSE U256_ZERO
           info == get_token_info(symbol_answer, decimals_answer)
       IN  [call EXCEPT !.result = "ok", !.text = "Token Balance",
                        !.balance = balance, !.symbol = info.symbol,
                        !.decimals = info.decimals,
                        !.formatted_balance =
                          format_balance(balance, info.decimals, info.symbol)]

(* ----------------------- get_accounts, get_private_keys ----------------- *)

get_accounts ==
  [NoCall EXCEPT !.tool = "get_accounts", !.result = "ok",
     !.accounts = [i \in 1..Len(anvil_accounts) |->
                     [index |-> anvil_accounts[i].index,
                      address |-> anvil_accounts[i].address,
                      private_key |-> NoneV]]]

get_private_keys_whole_key(key) ==
  [NoCall EXCEPT !.tool = "get_private_keys", !.result = "ok",
     !.accounts = IF anvil_accounts # <<>> /\ ~is_empty(key)
                  THEN [anvil_accounts EXCEPT ![1].private_key = Some(key)]
                  ELSE anvil_accounts]
\* &self.alice_private_key[..10] panics when the key has fewer than 10 bytes
get_private_keys(key) ==
  LET call == [NoCall EXCEPT !.tool = "get_private_keys"]
      accounts_with_keys ==
        IF anvil_accounts # <<>> /\ ~is_empty(key)
        THEN [anvil_accounts EXCEPT ![1].private_key = Some(Take(key, 10) \o <<".",".",".">>)]
        ELSE anvil_accounts
  IN  IF anvil_accounts # <<>> /\ ~is_empty(key) /\ Len(key) < 10
      THEN [call EXCEPT !.result = "panic"]
      ELSE [call EXCEPT !.result = "ok", !.accounts = accounts_with_keys]

(* ------------------------- check_transaction_status --------------------- *)

\* timeout.unwrap_or(30)
timeout_or_default_60(timeout) == IF timeout.some THEN timeout.v ELSE 60
timeout_or_default(timeout) == IF timeout.some THEN timeout.v ELSE 30

\* env: whether each of the RPC requests the handler makes succeeds
check_transaction_status(n, req, receipt_rpc_ok, wait_rpc_ok, by_hash_rpc_ok) ==
  LET call == [NoCall EXCEPT !.tool = "check_transaction_status", !.req = req]
      tx_hash == TxHash_from_str(req.tx_hash)
      timeout_secs == timeout_or_default(req.timeout)
      hs == SlotOfHash(tx_hash.value)
      h == CHOOSE x \in hs : TRUE
      \* get_transaction_receipt
      receipt == IF hs # {} /\ n[h].st = "mined" THEN Some(n[h].success) ELSE NoneV
      waited == get_receipt(n, tx_hash.value, timeout_secs, wait_rpc_ok)
      \* get_transaction_by_hash, asked after the wait
      by_hash == hs # {} /\ waited.node[h].st \in {"pending", "mined"}
      seen == [call EXCEPT !.slot = IF hs # {} THEN h ELSE 0,
                           !.env.before = IF hs # {} THEN n[h] ELSE UnsentSlot]
  IN  IF ~tx_hash.ok
      THEN [node |-> n, last |-> [call EXCEPT !.result = "invalid_params"]]
      ELSE IF ~receipt_rpc_ok
      THEN [node |-> n,
            last |-> [seen EXCEPT !.result = "internal_error", !.env.receipt_rpc = "fail",
                                  !.text = "Failed to get transaction receipt"]]
      ELSE IF receipt.some
      THEN [node |-> n,
            last |-> [seen EXCEPT !.result = "ok", !.env.receipt_rpc = "ok",
                                  !.text = "Transaction Status",
                                  !.status = IF receipt.v THEN "SUCCESS" ELSE "FAILED"]]
      ELSE IF waited.ok
      THEN [node |-> waited.node,
            last |-> [seen EXCEPT !.result = "ok", !.env.receipt_rpc = "ok",
                                  !.env.wait = "receipt",
                                  !.text = "Transaction Status (Waited for confirmation)",
                                  !.status = IF waited.success THEN "SUCCESS" ELSE "FAILED"]]
      ELSE IF ~by_hash_rpc_ok
      THEN [node |-> waited.node,
            last |-> [seen EXCEPT !.result = "internal_error", !.env.receipt_rpc = "ok",
                                  !.env.wait = waited.why, !.env.by_hash_rpc = "fail",
                                  !.text = "Failed to check transaction status"]]
      ELSE IF by_hash
      THEN [node |-> waited.node,
            last |-> [seen EXCEPT !.result = "ok", !.env.receipt_rpc = "ok",
                                  !.env.wait = waited.why, !.env.by_hash_rpc = "ok",
                                  !.text = "Transaction Status", !.status = "PENDING"]]
      ELSE [node |-> waited.node,
            last |-> [seen EXCEPT !.result = "ok", !.env.receipt_rpc = "ok",
                                  !.env.wait = waited.why, !.env.by_hash_rpc = "ok",
                                  !.text = "Transaction Status", !.status = "NOT FOUND"]]

(* ------------------------------ tool routers ---------------------------- *)

BlockchainTools == {"balance", "send_eth", "is_contract_deployed", "token_balance",
                    "get_accounts", "get_private_keys", "swap_tokens",
                    "get_default_addresses", "check_transaction_status"}
SearchTools == {"web_search", "get_token_price", "get_contract_info", "handle_swap_intent"}
CombinedTools == {"balance", "send_eth", "is_contract_deployed", "token_balance",
                  "get_accounts", "get_private_keys", "get_default_addresses",
                  "swap_tokens", "web_search", "get_token_price", "get_contract_info",
                  "handle_swap_intent"}
ToolRouter(s) == IF s = "CombinedService" THEN CombinedTools ELSE BlockchainTools

(* -------------------------------- inputs -------------------------------- *)

Keys == { <<>>, <<"0","x","a","b","c">>, <<"0","x","a","c","0","9","7","4","b","e">>,
          <<"0","x","a","c","0","9","7","4","b","e","c","3","9","a","1","7","e","3","6","b","a","4","a","6","b","4","d","2","3","8","f","f","9","4","4","b","a","c","b","4","7","8","c","b","e","d","5","e","f","c","a","e","7","8","4","d","7","b","f","4","f","2","f","f","8","0">> }
KnownNames == { <<"a","l","i","c","e">>, <<"b","o","b">>, <<"a","c","c","o","u","n","t","0">>, <<"a","c","c","o","u","n","t","1">>, <<"a","c","c","o","u","n","t","2">>, <<"a","c","c","o","u","n","t","3">>,
                <<"a","c","c","o","u","n","t","4">>, <<"a","c","c","o","u","n","t","5">>, <<"a","c","c","o","u","n","t","6">>, <<"a","c","c","o","u","n","t","7">>, <<"a","c","c","o","u","n","t","8">>,
                <<"a","c","c","o","u","n","t","9">> }
Recipients == KnownNames \cup
              { <<" ","A","l","i","c","e"," ">>, <<"B","O","B">>, <<"A","c","c","o","u","n","t","0">>, <<"\t","a","c","c","o","u","n","t","1","\n">>, <<"A","C","C","O","U","N","T","9">>,
                <<"a","c","c","o","u","n","t","1","0">>, <<"c","a","r","o","l">>, <<>>, <<"v","i","t","a","l","i","k",".","e","t","h">>, <<"a","l","i","c","e",".">>, <<"b","o","b",".","e","t","h">>,
                <<"0","x","3","C","4","4","C","d","D","d","B","6","a","9","0","0","f","a","2","b","5","8","5","d","d","2","9","9","e","0","3","d","1","2","F","A","4","2","9","3","B","C">>,
                <<" ","7","0","9","9","7","9","7","0","C","5","1","8","1","2","d","c","3","A","0","1","0","C","7","d","0","1","b","5","0","e","0","d","1","7","d","c","7","9","C","8">>,
                <<"0","x","3","C","4","4">> }
EnsAnswers == { NoneV, Some(Address_from_str(<<"0","x","d","8","d","A","6","B","F","2","6","9","6","4","a","F","9","D","7","e","E","d","9","e","0","3","E","5","3","4","1","5","D","3","7","a","A","9","6","0","4","5">>).value) }
TransferAmounts == { <<"1">>, <<"1",".","0">>, <<"0",".","5">>, <<"2",".">>, <<"1","0">>, <<"0",".","2","5">>, <<"a","b","c">>, <<>>, <<"-","1">>, <<"0","x","1">> }
TransferRequests ==
  { [NoRequest EXCEPT !.tool = "send_eth", !.to = to, !.amount = <<"1">>] : to \in Recipients } \cup
  { [NoRequest EXCEPT !.tool = "send_eth", !.to = to, !.amount = amount] :
      to \in { <<"b","o","b">>, <<"c","a","r","o","l">> }, amount \in TransferAmounts }
\* what happens to a submitted transaction: Cast::send fails, or the node takes
\* delay seconds to mine it (Never: it stays in the mempool); wait_rpc_ok is
\* whether the RPC requests of the confirmation wait succeed
Fates ==
  { [send_ok |-> FALSE, delay |-> Never, success |-> FALSE, wait_rpc_ok |-> TRUE] } \cup
  { [send_ok |-> TRUE, delay |-> 5, success |-> sc, wait_rpc_ok |-> w] :
      sc \in BOOLEAN, w \in BOOLEAN } \cup
  { [send_ok |-> TRUE, delay |-> MaxDelay, success |-> sc, wait_rpc_ok |-> TRUE] :
      sc \in BOOLEAN } \cup
  { [send_ok |-> TRUE, delay |-> Never, success |-> FALSE, wait_rpc_ok |-> TRUE] }
HashInputs == { <<"0","x">> \o TxHashOfSlot(h) : h \in Slots } \cup
              { TxHashOfSlot(1), <<"0","x">> \o Repeat("F", 64), <<"0","x","1","2","3","4">>, <<"l","a","t","e","s","t">> }
Timeouts == { NoTimeout, Some(10), Some(60) }
StatusRequests ==
  { [NoRequest EXCEPT !.tool = "check_transaction_status", !.tx_hash = hs, !.timeout = t] :
      hs \in HashInputs, t \in Timeouts }
SwapTokens == { <<"E","T","H">>, <<"e","t","h">>, <<"W","E","T","H">>, <<"w","E","t","h">>, <<"U","S","D","C">>, <<"d","a","i">>, <<"F","O","O">>,
                <<"0","x","1","f","9","8","4","0","a","8","5","d","5","a","F","5","b","f","1","D","1","7","6","2","F","9","2","5","B","D","A","D","d","C","4","2","0","1","F","9","8","4">> }
SwapAmounts == { <<"1">>, <<"0",".","5">>, <<"0",".","0","1">>, <<"1","0">>, <<"-","1">>, <<"a","b","c">>, <<>> }
SwapRequests ==
  { [NoRequest EXCEPT !.tool = "swap_tokens", !.from_token = f, !.to_token = t,
                      !.amount = <<"1">>] : f \in SwapTokens, t \in SwapTokens } \cup
  { [NoRequest EXCEPT !.tool = "swap_tokens", !.from_token = p[1], !.to_token = p[2],
                      !.amount = a] :
      p \in { <<<<"E","T","H">>, <<"W","E","T","H">>>>, <<<<"w","e","t","h">>, <<"E","t","h">>>>, <<<<"E","T","H">>, <<"U","S","D","C">>>> },
      a \in SwapAmounts }
Clock == {1762300000}
AccountRequests == { [NoRequest EXCEPT !.tool = t] : t \in {"get_accounts", "get_private_keys"} }

TokenBalanceRequests ==
  { [NoRequest EXCEPT !.tool = "token_balance", !.token_address = t, !.account_address = a] :
      t \in { <<"0","x","A","0","b","8","6","9","9","1","c","6","2","1","8","b","3","6","c","1","d","1","9","D","4","a","2","e","9","E","b","0","c","E","3","6","0","6","e","B","4","8">>, <<"U","S","D","C">> },
      a \in { available_addresses[1], <<"0","x","1","2","3">> } }
\* raw balances a token contract answers with
RawBalances == { <<0>>, <<1,0,0,0,0,0,1>>, <<1,2,3,4,5,6,7,8,9,0,1,2,3,4,5,6,7,8,9,0,1,2,3,4,5,6,7,8,9,0>>, U256_MAX }
\* decimals() answers (one byte)
TokenDecimals == { 0, 1, 6, 77 }
TokenSymbols == { <<"U","S","D","C">> }

Requests == TransferRequests \cup StatusRequests \cup AccountRequests \cup SwapRequests
              \cup TokenBalanceRequests
\* the tools whose handlers submit a transaction
SendingTools == {"send_eth", "swap_tokens"}

(* ------------------------------ the rig client ------------------------- *)

general_patterns == <<
  <<"w","h","a","t"," ","t","o","o","l","s"," ","d","o"," ","y","o","u"," ","h","a","v","e">>, <<"w","h","a","t"," ","c","a","n"," ","y","o","u"," ","d","o">>, <<"h","o","w"," ","d","o"," ","y","o","u"," ","w","o","r","k">>,
  <<"t","e","l","l"," ","m","e"," ","a","b","o","u","t"," ","y","o","u","r","s","e","l","f">>, <<"w","h","a","t"," ","a","r","e"," ","y","o","u","r"," ","c","a","p","a","b","i","l","i","t","i","e","s">>, <<"w","h","a","t"," ","a","r","e"," ","y","o","u">>,
  <<"w","h","o"," ","a","r","e"," ","y","o","u">>, <<"e","x","p","l","a","i","n"," ","y","o","u","r","s","e","l","f">>, <<"h","e","l","p">>, <<"w","h","a","t"," ","i","s"," ","t","h","i","s">>,
  <<"h","o","w"," ","d","o","e","s"," ","t","h","i","s"," ","w","o","r","k">>, <<"w","h","a","t"," ","i","s"," ","m","c","p">>, <<"w","h","a","t"," ","i","s"," ","r","a","g">>, <<"w","h","a","t"," ","i","s"," ","u","n","i","s","w","a","p">>,
  <<"e","x","p","l","a","i","n">>, <<"d","e","s","c","r","i","b","e">>, <<"w","h","a","t"," ","d","o","e","s">>, <<"h","o","w"," ","t","o">>, <<"c","a","n"," ","y","o","u">>, <<"d","o"," ","y","o","u">>,
  <<"a","r","e"," ","y","o","u">> >>

is_general_question_case_sensitive(input) ==
  \E i \in 1..Len(general_patterns) : contains(input, general_patterns[i])

is_general_question(input) ==
  LET lower_input == to_lowercase(input)
  IN  \E i \in 1..Len(general_patterns) : contains(lower_input, general_patterns[i])

\* str::split_whitespace().count()
split_whitespace_count(s) ==
  Cardinality({i \in 1..Len(s) :
                 ~is_whitespace(s[i]) /\ (i = 1 \/ is_whitespace(s[i - 1]))})

contains_any(s, pats) == \E p \in pats : contains(s, p)

\* has_version_term of is_documentation_query
version_term_v2_only(lower_input) == contains(lower_input, <<"v","2">>)
version_term(lower_input) == contains_any(lower_input, { <<"v","2">>, <<"v","3">>, <<"v","4">> })

\* is_deployment_check of is_documentation_query
deployment_check_never(lower_input, has_docs_keyword, has_question_word) == FALSE
deployment_check(lower_input, has_docs_keyword, has_question_word) ==
  /\ contains(lower_input, <<"d","e","p","l","o","y","e","d">>)
  /\ contains_any(lower_input, { <<"i","s">>, <<"c","h","e","c","k">> })
  /\ ~has_docs_keyword /\ ~has_question_word

is_documentation_query(input) ==
  LET lower_input == to_lowercase(input)
      has_question_mark == contains(lower_input, <<"?">>)
      has_docs_keyword ==
        contains_any(lower_input, { <<"d","o","c","s">>, <<"d","o","c","u","m","e","n","t","a","t","i","o","n">>, <<"g","u","i","d","e">>, <<"t","u","t","o","r","i","a","l">> })
      has_question_word ==
        contains_any(lower_input,
          { <<"h","o","w"," ","d","o"," ","i">>, <<"h","o","w"," ","t","o">>, <<"w","h","a","t"," ","i","s">>, <<"w","h","a","t","'","s">>, <<"e","x","p","l","a","i","n">>, <<"s","h","o","w"," ","m","e">>,
            <<"t","e","l","l"," ","m","e">>, <<"d","e","s","c","r","i","b","e">>, <<"w","h","a","t"," ","d","o","e","s">>, <<"d","i","f","f","e","r","e","n","c","e"," ","b","e","t","w","e","e","n">>,
            <<"c","a","l","c","u","l","a","t","e">>, <<"c","o","m","p","u","t","e">> })
      has_uniswap_term ==
        contains_any(lower_input,
          { <<"u","n","i","s","w","a","p">>, <<"s","l","i","p","p","a","g","e">>, <<"e","x","a","c","t","i","n","p","u","t">>, <<"e","x","a","c","t","o","u","t","p","u","t">>, <<"r","o","u","t","e","r">>,
            <<"f","a","c","t","o","r","y">>, <<"p","a","i","r">>, <<"p","o","o","l">>, <<"l","i","q","u","i","d","i","t","y">>, <<"o","r","a","c","l","e">>, <<"f","l","a","s","h">>,
            <<"c","a","l","l","b","a","c","k">>, <<"m","u","l","t","i","c","a","l","l">>, <<"p","e","r","m","i","t">>, <<"s","i","g","n","a","t","u","r","e">>, <<"e","i","p","7","1","2">>,
            <<"d","e","a","d","l","i","n","e">>, <<"g","a","s">>, <<"e","v","e","n","t">>, <<"e","r","r","o","r">>, <<"r","e","v","e","r","t">> })
      has_version_term == version_term(lower_input)
      is_question_format == has_question_mark \/ has_docs_keyword \/ has_question_word
      is_uniswap_related == has_uniswap_term \/ has_version_term
      is_simple_command ==
        /\ contains(lower_input, <<"s","w","a","p">>)
        /\ contains_any(lower_input, { <<"e","t","h">>, <<"u","s","d","c">>, <<"t","o","k","e","n">> })
        /\ ~has_question_mark /\ ~has_docs_keyword /\ ~has_question_word
      is_deployment_check ==
        deployment_check(lower_input, has_docs_keyword, has_question_word)
      is_just_terms == ~has_question_mark /\ ~has_docs_keyword /\ ~has_question_word
      is_simple_phrase ==
        /\ contains_any(lower_input, { <<"c","o","n","t","r","a","c","t">>, <<"i","n","t","e","r","f","a","c","e">> })
        /\ ~has_question_mark /\ ~has_docs_keyword /\ ~has_question_word
        /\ split_whitespace_count(lower_input) <= 3
  IN  /\ is_question_format /\ is_uniswap_related
      /\ ~is_simple_command /\ ~is_deployment_check
      /\ ~is_just_terms /\ ~is_simple_phrase

\* test_rag_logic of tests/rag_logic_test.rs: the function the tests call in
\* place of BlockchainAgent::is_documentation_query
test_rag_logic(input) ==
  LET lower_input == to_lowercase(input)
      has_question_mark == contains(lower_input, <<"?">>)
      has_docs_keyword ==
        \/ contains(lower_input, <<"d","o","c","s">>) \/ contains(lower_input, <<"d","o","c","u","m","e","n","t","a","t","i","o","n">>)
        \/ contains(lower_input, <<"g","u","i","d","e">>) \/ contains(lower_input, <<"t","u","t","o","r","i","a","l">>)
      has_question_word ==
        \/ contains(lower_input, <<"h","o","w"," ","d","o"," ","i">>) \/ contains(lower_input, <<"h","o","w"," ","t","o">>)
        \/ contains(lower_input, <<"w","h","a","t"," ","i","s">>) \/ contains(lower_input, <<"w","h","a","t","'","s">>)
        \/ contains(lower_input, <<"e","x","p","l","a","i","n">>) \/ contains(lower_input, <<"s","h","o","w"," ","m","e">>)
        \/ contains(lower_input, <<"t","e","l","l"," ","m","e">>) \/ contains(lower_input, <<"d","e","s","c","r","i","b","e">>)
        \/ contains(lower_input, <<"w","h","a","t"," ","d","o","e","s">>)
        \/ contains(lower_input, <<"d","i","f","f","e","r","e","n","c","e"," ","b","e","t","w","e","e","n">>)
        \/ contains(lower_input, <<"c","a","l","c","u","l","a","t","e">>) \/ contains(lower_input, <<"c","o","m","p","u","t","e">>)
      has_uniswap_term ==
        \/ contains(lower_input, <<"u","n","i","s","w","a","p">>) \/ contains(lower_input, <<"s","l","i","p","p","a","g","e">>)
        \/ contains(lower_input, <<"e","x","a","c","t","i","n","p","u","t">>) \/ contains(lower_input, <<"e","x","a","c","t","o","u","t","p","u","t">>)
        \/ contains(lower_input, <<"r","o","u","t","e","r">>) \/ contains(lower_input, <<"f","a","c","t","o","r","y">>)
        \/ contains(lower_input, <<"p","a","i","r">>) \/ contains(lower_input, <<"p","o","o","l">>)
        \/ contains(lower_input, <<"l","i","q","u","i","d","i","t","y">>) \/ contains(lower_input, <<"o","r","a","c","l","e">>)
        \/ contains(lower_input, <<"f","l","a","s","h">>) \/ contains(lower_input, <<"c","a","l","l","b","a","c","k">>)
        \/ contains(lower_input, <<"m","u","l","t","i","c","a","l","l">>) \/ contains(lower_input, <<"p","e","r","m","i","t">>)
        \/ contains(lower_input, <<"s","i","g","n","a","t","u","r","e">>) \/ contains(lower_input, <<"e","i","p","7","1","2">>)
        \/ contains(lower_input, <<"d","e","a","d","l","i","n","e">>) \/ contains(lower_input, <<"g","a","s">>)
        \/ contains(lower_input, <<"e","v","e","n","t">>) \/ contains(lower_input, <<"e","r","r","o","r">>)
        \/ contains(lower_input, <<"r","e","v","e","r","t">>)
      has_version_term ==
        \/ contains(lower_input, <<"v","2">>) \/ contains(lower_input, <<"v","3">>)
        \/ contains(lower_input, <<"v","4">>)
      is_question_format == has_question_mark \/ has_docs_keyword \/ has_question_word
      is_uniswap_related == has_uniswap_term \/ has_version_term
      is_simple_command ==
        /\ contains(lower_input, <<"s","w","a","p">>)
        /\ (\/ contains(lower_input, <<"e","t","h">>) \/ contains(lower_input, <<"u","s","d","c">>)
            \/ contains(lower_input, <<"t","o","k","e","n">>))
        /\ ~has_question_mark /\ ~has_docs_keyword /\ ~has_question_word
      is_deployment_check ==
        /\ contains(lower_input, <<"d","e","p","l","o","y","e","d">>)
        /\ (contains(lower_input, <<"i","s">>) \/ contains(lower_input, <<"c","h","e","c","k">>))
        /\ ~has_docs_keyword /\ ~has_question_word
      is_just_terms == ~has_question_mark /\ ~has_docs_keyword /\ ~has_question_word
      is_simple_phrase ==
        /\ (contains(lower_input, <<"c","o","n","t","r","a","c","t">>) \/ contains(lower_input, <<"i","n","t","e","r","f","a","c","e">>))
        /\ ~has_question_mark /\ ~has_docs_keyword /\ ~has_question_word
        /\ split_whitespace_count(lower_input) <= 3
  IN  /\ is_question_format /\ is_uniswap_related
      /\ ~is_simple_command /\ ~is_deployment_check
      /\ ~is_just_terms /\ ~is_simple_phrase

\* which of its canned answers handle_general_question gives
handle_general_question(input) ==
  LET lower_input == to_lowercase(input)
  IN  IF contains(lower_input, <<"w","h","a","t"," ","t","o","o","l","s">>) \/ contains(lower_input, <<"c","a","p","a","b","i","l","i","t","i","e","s">>)
      THEN "tools"
      ELSE IF contains(lower_input, <<"h","o","w"," ","d","o"," ","y","o","u"," ","w","o","r","k">>) \/ contains(lower_input, <<"w","h","a","t"," ","a","r","e"," ","y","o","u">>)
      THEN "how it works"
      ELSE IF contains(lower_input, <<"w","h","a","t"," ","i","s"," ","m","c","p">>) THEN "mcp"
      ELSE IF contains(lower_input, <<"w","h","a","t"," ","i","s"," ","r","a","g">>) THEN "rag"
      ELSE "assistant"

\* the documents a search can return, best first: title, tags, content and
\* score in tenths of a percent
SearchableDocuments == <<
  [title |-> <<"U","n","i","s","w","a","p"," ","V","2"," ","R","o","u","t","e","r"," ","I","n","t","e","r","f","a","c","e">>, tags |-> <<"u","n","i","s","w","a","p",","," ","v","2",","," ","i","n","t","e","r","f","a","c","e",","," ","r","o","u","t","e","r",","," ","s","w","a","p">>,
   content |-> <<"#"," ","U","n","i","s","w","a","p"," ","V","2"," ","R","o","u","t","e","r"," ","I","n","t","e","r","f","a","c","e">>, score |-> 1004],
  [title |-> <<"S","l","i","p","p","a","g","e"," ","C","a","l","c","u","l","a","t","i","o","n"," ","G","u","i","d","e">>, tags |-> <<"u","n","i","s","w","a","p",","," ","s","l","i","p","p","a","g","e",","," ","g","u","i","d","e",","," ","c","a","l","c","u","l","a","t","i","o","n">>,
   content |-> <<"#"," ","S","l","i","p","p","a","g","e"," ","C","a","l","c","u","l","a","t","i","o","n"," ","f","o","r"," ","U","n","i","s","w","a","p">>, score |-> 875],
  [title |-> <<"U","n","i","s","w","a","p"," ","V","3"," ","S","w","a","p","R","o","u","t","e","r"," ","C","o","n","t","r","a","c","t">>, tags |-> <<"u","n","i","s","w","a","p",","," ","v","3",","," ","c","o","n","t","r","a","c","t",","," ","r","o","u","t","e","r",","," ","s","w","a","p">>,
   content |-> <<"#"," ","U","n","i","s","w","a","p"," ","V","3"," ","S","w","a","p","R","o","u","t","e","r">>, score |-> 90] >>

\* format!("{:.1}", (score * 100.0).min(100.0)), the score in tenths of a percent
format_relevance(score) ==
  LET shown == IF score < 1000 THEN score ELSE 1000
  IN  u256_to_string(NatDigits(shown \div 10)) \o <<".">> \o u256_to_string(<<shown % 10>>)

Rule == Repeat("-", 80)

RECURSIVE context_of_results(_)
context_of_results(results) ==
  IF results = <<>> THEN <<>>
  ELSE LET doc == Head(results)
       IN  <<"D","o","c","u","m","e","n","t",":"," ">> \o doc.title \o <<" ","(","R","e","l","e","v","a","n","c","e",":"," ">> \o format_relevance(doc.score)
             \o <<"%",")","\n">>
             \o <<"T","a","g","s",":"," ">> \o doc.tags \o <<"\n">>
             \o <<"C","o","n","t","e","n","t",":","\n">> \o doc.content \o <<"\n","\n">>
             \o Rule \o <<"\n","\n">>
             \o context_of_results(Tail(results))

\* search: the answer of rag_system.search(query, 3)
enhance_query_with_rag(rag, query, search) ==
  IF rag.some
  THEN IF ~search.ok THEN [ok |-> FALSE, value |-> <<>>]
       ELSE IF search.results = <<>> THEN [ok |-> TRUE, value |-> query]
       ELSE LET context == <<"\n","\n","R","E","L","E","V","A","N","T"," ","U","N","I","S","W","A","P"," ","D","O","C","U","M","E","N","T","A","T","I","O","N",":","\n">> \o Rule \o <<"\n">>
                             \o context_of_results(search.results)
            IN  [ok |-> TRUE, value |-> query \o <<"\n","\n">> \o context]
  ELSE [ok |-> TRUE, value |-> query]

\* what the last call on the agent did and returned
NoCommand == [op |-> "", input |-> NoneV, general |-> FALSE, documentation |-> FALSE,
              rag |-> FALSE, search |-> "", results |-> <<>>, prompt |-> NoneV,
              tool_rounds |-> 0, result |-> "", answer |-> "", status |-> NoneV]

\* search: the answer of the documentation search; claude_ok: whether the
\* Claude API answers
process_command(rag, user_input, search, claude_ok) ==
  LET general == is_general_question(user_input)
      documentation == is_documentation_query(user_input)
      enhanced == enhance_query_with_rag(rag, user_input, search)
      enhanced_input == IF documentation /\ rag.some
                        THEN IF enhanced.ok THEN enhanced.value ELSE user_input
                        ELSE user_input
      cmd == [NoCommand EXCEPT !.op = "process_command",
                !.input = Some(user_input), !.general = general,
                !.documentation = documentation, !.rag = rag.some,
                !.search = IF documentation /\ rag.some
                           THEN IF ~search.ok THEN "failed"
                                ELSE IF search.results = <<>> THEN "empty" ELSE "found"
                           ELSE "",
                !.results = IF documentation /\ rag.some /\ search.ok
                            THEN search.results ELSE <<>>]
  IN  IF general
      THEN [cmd EXCEPT !.result = "ok", !.answer = handle_general_question(user_input)]
      ELSE IF claude_ok
      THEN [cmd EXCEPT !.prompt = Some(enhanced_input), !.tool_rounds = 5,
                       !.result = "ok", !.answer = "claude"]
      ELSE [cmd EXCEPT !.prompt = Some(enhanced_input), !.tool_rounds = 5,
                       !.result = "ClaudeApi"]

(* --------------------------- UniswapRagSystem -------------------------- *)

\* number of documents add_sample_documentation indexes
SampleDocuments == 4

\* UniswapRagSystem::new: an empty vector store and document_count 0
UniswapRagSystem_new == [index |-> {}, document_count |-> 0]

\* the documents are named by their id (a fresh UUID each)
sample_docs == [i \in 1..SampleDocuments |-> <<"sample", i>>]

\* embeds: whether the embeddings of the documents can be built
index_documents_adding(rag, documents, embeds) ==
  IF ~embeds THEN [ok |-> FALSE, rag |-> rag]
  ELSE [ok |-> TRUE,
        rag |-> [index |-> Range(documents),
                 document_count |-> rag.document_count + Len(documents)]]

index_documents(rag, documents, embeds) ==
  IF ~embeds THEN [ok |-> FALSE, rag |-> rag]
  ELSE [ok |-> TRUE,
        rag |-> [index |-> Range(documents), document_count |-> Len(documents)]]

\* exists: whether docs_path exists; documents: the files read from it
load_documentation(rag, exists, documents, embeds) ==
  IF ~exists THEN [ok |-> TRUE, rag |-> rag]
  ELSE IF documents = <<>> THEN [ok |-> TRUE, rag |-> rag]
  ELSE index_documents(rag, documents, embeds)

add_sample_documentation(rag, embeds) == index_documents(rag, sample_docs, embeds)

document_count(rag) == rag.document_count

\* the steps of initialize_rag_system that can return an error
InitFailures == { "load_documentation", "add_sample_documentation", "get_all_documents",
                  "embeddings", "list_tools" }

\* docs_path: Some(path) or None; failure: the step that fails, or "none"
initialize_rag_system_without_samples(current, docs_path, exists, documents, failure) ==
  LET loaded == IF docs_path.some
                THEN load_documentation(UniswapRagSystem_new, exists, documents,
                                        failure # "load_documentation")
                ELSE [ok |-> TRUE, rag |-> UniswapRagSystem_new]
  IN  IF ~loaded.ok THEN [result |-> "RagError", rag_system |-> current]
      ELSE IF failure \in { "get_all_documents", "embeddings" }
      THEN [result |-> "RagError", rag_system |-> current]
      ELSE IF failure = "list_tools"
      THEN [result |-> "McpConnection", rag_system |-> current]
      ELSE [result |-> "ok", rag_system |-> Some(loaded.rag)]

initialize_rag_system(current, docs_path, exists, documents, failure) ==
  LET loaded == IF docs_path.some
                THEN load_documentation(UniswapRagSystem_new, exists, documents,
                                        failure # "load_documentation")
                ELSE [ok |-> TRUE, rag |-> UniswapRagSystem_new]
      sampled == IF document_count(loaded.rag) = 0
                 THEN add_sample_documentation(loaded.rag,
                                               failure # "add_sample_documentation")
                 ELSE [ok |-> TRUE, rag |-> loaded.rag]
  IN  IF ~loaded.ok THEN [result |-> "RagError", rag_system |-> current]
      ELSE IF ~sampled.ok THEN [result |-> "RagError", rag_system |-> current]
      ELSE IF failure \in { "get_all_documents", "embeddings" }
      THEN [result |-> "RagError", rag_system |-> current]
      ELSE IF failure = "list_tools"
      THEN [result |-> "McpConnection", rag_system |-> current]
      ELSE [result |-> "ok", rag_system |-> Some(sampled.rag)]

\* format!("RAG System: {} documents indexed", rag.document_count())
rag_status(current) ==
  IF current.some
  THEN Some(<<"R","A","G"," ","S","y","s","t","e","m",":"," ">> \o u256_to_string(NatDigits(document_count(current.v)))
              \o <<" ","d","o","c","u","m","e","n","t","s"," ","i","n","d","e","x","e","d">>)
  ELSE NoneV

\* search: the answer of rag_system.search(query, limit)
search_documentation(current, search) ==
  IF current.some
  THEN IF search.ok
       THEN [NoCommand EXCEPT !.op = "search_documentation", !.rag = TRUE,
                              !.result = "ok", !.results = search.results]
       ELSE [NoCommand EXCEPT !.op = "search_documentation", !.rag = TRUE,
                              !.result = "RagError", !.answer = "Search failed"]
  ELSE [NoCommand EXCEPT !.op = "search_documentation", !.result = "RagError",
                         !.answer = "RAG system not initialized"]

(* --------------------------- document ingestion ------------------------ *)

\* str::lines: split at "\n", a "\r" before it removed; no last empty line
RECURSIVE split_lines(_, _)
split_lines(s, current) ==
  IF s = <<>> THEN (IF current = <<>> THEN <<>> ELSE <<current>>)
  ELSE IF Head(s) = "\n"
  THEN <<IF current # <<>> /\ current[Len(current)] = "\r"
         THEN SubSeq(current, 1, Len(current) - 1) ELSE current>>
         \o split_lines(Tail(s), <<>>)
  ELSE split_lines(Tail(s), current \o <<Head(s)>>)
lines(content) == split_lines(content, <<>>)

\* the SHA-256 of the content in hex, as a value that differs for different
\* contents and is no file name
sha256_hex(content) == <<"sha256">> \o content

\* RawDocument::new; utf8: whether the bytes are valid UTF-8
RawDocument_new(content, utf8, title, doc_type) ==
  [content |-> content, utf8 |-> utf8,
   metadata |-> [title |-> title, doc_type |-> doc_type],
   checksum |-> sha256_hex(content)]

validate_solidity(content) ==
  IF ~contains(content, <<"p","r","a","g","m","a"," ","s","o","l","i","d","i","t","y">>) /\ ~contains(content, <<"c","o","n","t","r","a","c","t"," ">>)
       /\ ~contains(content, <<"i","n","t","e","r","f","a","c","e"," ">>)
  THEN "Not a valid Solidity file"
  ELSE IF ~(contains(content, <<"{">>) /\ contains(content, <<"}">>))
  THEN "Invalid Solidity structure"
  ELSE "ok"

\* the character U+0060
Backtick == "backtick"

validate_markdown(content) ==
  IF contains(content, <<"#">>) \/ contains(content, <<"-">>) \/ contains(content, <<Backtick, Backtick, Backtick>>)
       \/ contains(content, <<"*">>) \/ contains(content, <<"[">>) \/ contains(content, <<"|">>)
  THEN "ok"
  ELSE "Invalid markdown structure"

\* RawDocument::validate, for Solidity, Markdown and Other documents
validate(doc) ==
  IF doc.content = <<>> THEN "Empty document"
  ELSE IF doc.metadata.doc_type = "Solidity" THEN validate_solidity(doc.content)
  ELSE IF doc.metadata.doc_type = "Markdown" THEN validate_markdown(doc.content)
  ELSE "ok"

RECURSIVE chunk_solidity_lines(_)
chunk_solidity_lines(ls) ==
  IF ls = <<>> THEN <<>>
  ELSE LET line == Head(ls)
       IN  (IF contains(line, <<"c","o","n","t","r","a","c","t"," ">>) \/ contains(line, <<"i","n","t","e","r","f","a","c","e"," ">>)
                 \/ contains(line, <<"l","i","b","r","a","r","y"," ">>)
            THEN <<line>> ELSE <<>>)
           \o (IF contains(line, <<"f","u","n","c","t","i","o","n"," ">>) THEN <<line>> ELSE <<>>)
           \o chunk_solidity_lines(Tail(ls))
chunk_solidity(content) ==
  LET chunks == chunk_solidity_lines(lines(content))
  IN  IF chunks = <<>> THEN <<content>> ELSE chunks

\* the loop of chunk_markdown over the lines left
RECURSIVE chunk_markdown_lines(_, _, _)
chunk_markdown_lines(ls, chunks, current_chunk) ==
  IF ls = <<>> THEN [chunks |-> chunks, current_chunk |-> current_chunk]
  ELSE LET line == Head(ls)
       IN  IF starts_with(line, <<"#">>)
           THEN chunk_markdown_lines(Tail(ls),
                  IF current_chunk # <<>> THEN Append(chunks, trim(current_chunk))
                  ELSE chunks,
                  line)
           ELSE chunk_markdown_lines(Tail(ls), chunks, current_chunk \o <<"\n">> \o line)
chunk_markdown(content) ==
  LET done == chunk_markdown_lines(lines(content), <<>>, <<>>)
      chunks == IF done.current_chunk # <<>>
                THEN Append(done.chunks, trim(done.current_chunk))
                ELSE done.chunks
  IN  IF chunks = <<>> THEN <<content>> ELSE chunks

\* DefaultDocumentProcessor::process
process(doc) ==
  LET valid == validate(doc)
  IN  IF valid # "ok" THEN [ok |-> FALSE, error |-> "ValidationError", document |-> NoneV]
      ELSE IF ~doc.utf8
      THEN [ok |-> FALSE, error |-> "ProcessingError", document |-> NoneV]
      ELSE [ok |-> TRUE, error |-> "",
            document |-> Some([content |-> doc.content,
                               chunks |-> IF doc.metadata.doc_type = "Solidity"
                                          THEN chunk_solidity(doc.content)
                                          ELSE IF doc.metadata.doc_type = "Markdown"
                                          THEN chunk_markdown(doc.content)
                                          ELSE <<doc.content>>,
                               metadata |-> doc.metadata,
                               checksum |-> doc.checksum])]

\* InMemoryDocStore: the HashMap as the set of its values, one per key
store_document(docs, doc) ==
  { d \in docs : d.metadata.title # doc.metadata.title } \cup { doc }

get_document(docs, title) ==
  IF \E d \in docs : d.metadata.title = title
  THEN Some(CHOOSE d \in docs : d.metadata.title = title)
  ELSE NoneV

list_documents(docs) == { d.metadata : d \in docs }

delete_document(docs, title) == { d \in docs : d.metadata.title # title }

\* IngestionStats::default
NoStats == [total_documents |-> 0, successful_documents |-> 0, failed_documents |-> 0,
            errors |-> <<>>]

\* DocumentIngestionPipeline::process_and_store; store_fails: the titles for
\* which the store's store_document returns a StorageError
process_and_store(docs, doc, store_fails) ==
  LET processed == process(doc)
  IN  IF ~processed.ok THEN [ok |-> FALSE, error |-> processed.error, docs |-> docs]
      ELSE IF doc.metadata.title \in store_fails
      THEN [ok |-> FALSE, error |-> "StorageError", docs |-> docs]
      ELSE [ok |-> TRUE, error |-> "", docs |-> store_document(docs, processed.document.v)]

\* the loop of run over the documents of one source
RECURSIVE process_documents_stopping(_, _, _, _)
process_documents_stopping(raw_docs, docs, stats, store_fails) ==
  IF raw_docs = <<>> THEN [docs |-> docs, stats |-> stats]
  ELSE LET r == process_and_store(docs, Head(raw_docs), store_fails)
       IN  IF r.ok
           THEN process_documents_stopping(Tail(raw_docs), r.docs,
                  [stats EXCEPT !.successful_documents = @ + 1], store_fails)
           ELSE [docs |-> r.docs,
                 stats |-> [stats EXCEPT !.failed_documents = @ + 1,
                                         !.errors = Append(@, r.error)]]

RECURSIVE process_documents(_, _, _, _)
process_documents(raw_docs, docs, stats, store_fails) ==
  IF raw_docs = <<>> THEN [docs |-> docs, stats |-> stats]
  ELSE LET r == process_and_store(docs, Head(raw_docs), store_fails)
       IN  process_documents(Tail(raw_docs), r.docs,
             IF r.ok THEN [stats EXCEPT !.successful_documents = @ + 1]
             ELSE [stats EXCEPT !.failed_documents = @ + 1,
                                !.errors = Append(@, r.error)],
             store_fails)

\* the loop of run over the sources left
RECURSIVE run_sources(_, _, _, _)
run_sources(sources, docs, stats, store_fails) ==
  IF sources = <<>> THEN [result |-> "ok", error |-> "", stats |-> Some(stats), docs |-> docs]
  ELSE LET source == Head(sources)
       IN  IF source.has_updates = "err"
           THEN [result |-> "Err", error |-> "has_updates", stats |-> NoneV, docs |-> docs]
           ELSE IF source.has_updates = "false"
           THEN run_sources(Tail(sources), docs, stats, store_fails)
           ELSE IF ~source.fetch_ok
           THEN [result |-> "Err", error |-> "fetch_documents", stats |-> NoneV,
                 docs |-> docs]
           ELSE LET done == process_documents(source.documents, docs,
                              [stats EXCEPT !.total_documents = @ + Len(source.documents)],
                              store_fails)
                IN  run_sources(Tail(sources), done.docs, done.stats, store_fails)

\* DocumentIngestionPipeline::run
run(sources, docs, store_fails) == run_sources(sources, docs, NoStats, store_fails)

NoLibCall == [op |-> "", result |-> "", error |-> "", key |-> <<>>, doc |-> NoneV,
              found |-> NoneV, listed |-> {}, stats |-> NoneV, sources |-> <<>>,
              store_fails |-> {}, count_before |-> 0, limit |-> 0]

(* -------------------------------- actions ------------------------------- *)

Init ==
  /\ alice_private_key \in Keys
  /\ server \in {"BlockchainService", "CombinedService"}
  /\ node = [h \in Slots |-> UnsentSlot]
  /\ request = NoRequest
  /\ last = NoCall
  /\ rag_system = NoneV
  /\ rag_initialized = FALSE
  /\ doc_store = {}
  /\ uniswap_rag = UniswapRagSystem_new
  /\ lib_last = NoLibCall
  /\ claude_prompts = 0
  /\ agent_last = NoCommand

\* a client sends a tools/call request
Receive ==
  /\ request = NoRequest
  /\ last = NoCall
  /\ \E r \in Requests :
       /\ r.tool \in SendingTools => FreeSlots # {}
       /\ request' = r
  /\ UNCHANGED <<alice_private_key, server, node, last>>
  /\ UNCHANGED <<agent_vars, lib_vars>>

\* the response has been returned to the client
Respond ==
  /\ last # NoCall
  /\ last' = NoCall
  /\ UNCHANGED <<alice_private_key, server, node, request>>
  /\ UNCHANGED <<agent_vars, lib_vars>>

\* the tool router has no handler of that name
ToolNotFound ==
  /\ request # NoRequest
  /\ request.tool \notin ToolRouter(server)
  /\ last' = [NoCall EXCEPT !.tool = request.tool, !.req = request,
                            !.result = "tool_not_found"]
  /\ request' = NoRequest
  /\ UNCHANGED <<alice_private_key, server, node>>
  /\ UNCHANGED <<agent_vars, lib_vars>>

Routed(tool) == request.tool = tool /\ tool \in ToolRouter(server)

\* a handler that has reached Cast::send submits and waits; one that has
\* returned leaves the node alone
Finish(p) ==
  IF p.done
  THEN /\ node' = node
       /\ last' = p.call
  ELSE \E fate \in Fates :
         \E h \in {x \in FreeSlots : \A y \in FreeSlots : x <= y} :
           \E r \in {send_and_confirm(node, h, p, fate)} :
             /\ node' = r.node
             /\ last' = r.last

SendEth ==
  /\ Routed("send_eth")
  /\ \E ens \in EnsAnswers :
       \E p \in {send_eth(alice_private_key, request, ens)} : Finish(p)
  /\ request' = NoRequest
  /\ UNCHANGED <<alice_private_key, server>>
  /\ UNCHANGED <<agent_vars, lib_vars>>

SwapTokensCall ==
  /\ Routed("swap_tokens")
  /\ \E now \in Clock :
       \E p \in {swap_tokens(alice_private_key, request, now)} : Finish(p)
  /\ request' = NoRequest
  /\ UNCHANGED <<alice_private_key, server>>
  /\ UNCHANGED <<agent_vars, lib_vars>>

GetAccounts ==
  /\ Routed("get_accounts")
  /\ last' = get_accounts
  /\ request' = NoRequest
  /\ UNCHANGED <<alice_private_key, server, node>>
  /\ UNCHANGED <<agent_vars, lib_vars>>

GetPrivateKeys ==
  /\ Routed("get_private_keys")
  /\ last' = get_private_keys(alice_private_key)
  /\ request' = NoRequest
  /\ UNCHANGED <<alice_private_key, server, node>>
  /\ UNCHANGED <<agent_vars, lib_vars>>

CheckTransactionStatus ==
  /\ Routed("check_transaction_status")
  /\ \E receipt_rpc_ok \in BOOLEAN, wait_rpc_ok \in BOOLEAN, by_hash_rpc_ok \in BOOLEAN :
       \E r \in {check_transaction_status(node, request, receipt_rpc_ok,
                                           wait_rpc_ok, by_hash_rpc_ok)} :
         /\ node' = r.node
         /\ last' = r.last
  /\ request' = NoRequest
  /\ UNCHANGED <<alice_private_key, server>>
  /\ UNCHANGED <<agent_vars, lib_vars>>

TokenBalance ==
  /\ Routed("token_balance")
  /\ \E call_ok \in BOOLEAN :
       \E balance_answer \in IF call_ok THEN {NoneV} \cup {Some(b) : b \in RawBalances}
                                         ELSE {NoneV} :
         \E symbol_answer \in IF call_ok THEN {NoneV} \cup {Some(y) : y \in TokenSymbols}
                                          ELSE {NoneV} :
           \E decimals_answer \in {[some |-> FALSE, v |-> 0]} \cup
                                    (IF call_ok THEN {Some(d) : d \in TokenDecimals} ELSE {}) :
             \E r \in {token_balance(request, call_ok, balance_answer, symbol_answer,
                                      decimals_answer)} :
               last' = r
  /\ request' = NoRequest
  /\ UNCHANGED <<alice_private_key, server, node>>
  /\ UNCHANGED <<agent_vars, lib_vars>>

\* the node drops a pending transaction from its mempool
DropTx ==
  /\ \E h \in Slots :
       /\ node[h].st = "pending"
       /\ node' = [node EXCEPT ![h] = [st |-> "dropped", delay |-> 0, success |-> FALSE]]
  /\ UNCHANGED <<alice_private_key, server, request, last>>
  /\ UNCHANGED <<agent_vars, lib_vars>>

Next ==
  \/ Receive \/ Respond \/ ToolNotFound
  \/ SendEth \/ SwapTokensCall \/ GetAccounts \/ GetPrivateKeys \/ CheckTransactionStatus
  \/ TokenBalance \/ DropTx

vars == <<server_vars, agent_vars, lib_vars>>
Spec == Init /\ [][Next]_vars

(* --------------------------- rig client actions ------------------------- *)

\* largest number of documents loaded from a documentation directory
MaxDocs == 2
\* number of Claude prompts counted
MaxPrompts == 2

UserInputs == {
  <<"H","o","w"," ","d","o","e","s"," ","U","n","i","s","w","a","p"," ","V","2"," ","w","o","r","k","?">>, <<"U","n","i","s","w","a","p"," ","V","3"," ","d","o","c","u","m","e","n","t","a","t","i","o","n">>,
  <<"E","x","p","l","a","i","n"," ","U","n","i","s","w","a","p"," ","s","l","i","p","p","a","g","e">>, <<"U","n","i","s","w","a","p"," ","V","2"," ","t","u","t","o","r","i","a","l">>,
  <<"s","w","a","p"," ","1"," ","E","T","H"," ","f","o","r"," ","U","S","D","C">>, <<"H","o","w"," ","m","u","c","h"," ","U","S","D","C"," ","d","o","e","s"," ","A","l","i","c","e"," ","h","a","v","e","?">>, <<"s","e","n","d"," ","1"," ","E","T","H"," ","t","o"," ","B","o","b">>,
  <<"I","s"," ","U","n","i","s","w","a","p"," ","R","o","u","t","e","r"," ","d","e","p","l","o","y","e","d","?">>,
  <<"w","h","a","t"," ","t","o","o","l","s"," ","d","o"," ","y","o","u"," ","h","a","v","e">>, <<"h","e","l","p">>, <<"W","h","a","t"," ","i","s"," ","M","C","P","?">>,
  <<"H","o","w"," ","d","o"," ","I"," ","c","a","l","c","u","l","a","t","e"," ","s","l","i","p","p","a","g","e"," ","f","o","r"," ","U","n","i","s","w","a","p"," ","V","3","?">>, <<"W","h","a","t"," ","i","s"," ","U","n","i","s","w","a","p"," ","s","l","i","p","p","a","g","e">>,
  <<"U","n","i","s","w","a","p"," ","V","2">>, <<"S","w","a","p","R","o","u","t","e","r"," ","c","o","n","t","r","a","c","t">>, <<"G","e","t"," ","t","h","e"," ","l","i","s","t"," ","o","f"," ","a","v","a","i","l","a","b","l","e"," ","a","c","c","o","u","n","t","s">>,
  <<"D","e","p","l","o","y","e","d"," ","v","3","?">>, <<"E","x","p","l","a","i","n"," ","d","e","p","l","o","y","e","d"," ","U","n","i","s","w","a","p">>, <<"c","h","e","c","k"," ","d","e","p","l","o","y","e","d"," ","p","o","o","l"," ","d","o","c","s">>,
  <<"c","h","e","c","k"," ","d","e","p","l","o","y","e","d"," ","r","o","u","t","e","r">>, <<"S","w","a","p","R","o","u","t","e","r"," ","c","o","n","t","r","a","c","t","?">>, <<"s","w","a","p"," ","E","T","H"," ","f","o","r"," ","U","S","D","C","?">>,
  <<"s","w","a","p"," ","E","T","H"," ","o","n"," ","U","n","i","s","w","a","p","?">>, <<"s","w","a","p"," ","t","o","k","e","n","s"," ","g","u","i","d","e"," ","v","2">>, <<"p","o","o","l"," ","i","n","t","e","r","f","a","c","e">>,
  <<"C","A","L","C","U","L","A","T","E"," ","G","A","S">>, <<"S","h","o","w"," ","m","e"," ","t","h","e"," ","S","w","a","p","R","o","u","t","e","r"," ","c","o","n","t","r","a","c","t"," ","i","n","t","e","r","f","a","c","e">>,
  <<"V","4"," ","h","o","o","k","s","?">>, <<"W","h","a","t","'","s"," ","B","o","b","'","s"," ","U","S","D","C"," ","b","a","l","a","n","c","e","?">>,
  <<>> }

\* what a search over n indexed documents can answer with limit 3
SearchAnswers(n) ==
  { [ok |-> FALSE, results |-> <<>>] } \cup
  { [ok |-> TRUE, results |-> SubSeq(SearchableDocuments, 1, k)] :
      k \in 0..(IF n < 3 THEN n ELSE 3) }

InitAgent ==
  /\ alice_private_key = <<>>
  /\ server = "BlockchainService"
  /\ node = [h \in Slots |-> UnsentSlot]
  /\ request = NoRequest
  /\ last = NoCall
  /\ rag_system = NoneV
  /\ rag_initialized = FALSE
  /\ doc_store = {}
  /\ uniswap_rag = UniswapRagSystem_new
  /\ lib_last = NoLibCall
  /\ claude_prompts = 0
  /\ agent_last = NoCommand

\* the files load_documentation reads from a documentation directory
Files(n) == [i \in 1..n |-> <<"file", i>>]

InitializeRagSystem ==
  /\ \E docs_path \in { NoneV, Some(<<"d","o","c","s">>) }, exists \in BOOLEAN, n \in 0..MaxDocs,
        failure \in InitFailures \cup { "none" } :
       \E r \in { initialize_rag_system(rag_system, docs_path, exists, Files(n), failure) } :
         /\ rag_system' = r.rag_system
         /\ rag_initialized' = (rag_initialized \/ r.result = "ok")
         /\ agent_last' = [NoCommand EXCEPT !.op = "initialize_rag_system",
                                            !.result = r.result]
  /\ UNCHANGED claude_prompts
  /\ UNCHANGED <<server_vars, lib_vars>>

\* the REPL's rag-status
RagStatus ==
  /\ agent_last' = [NoCommand EXCEPT !.op = "rag_status", !.result = "ok",
                                     !.status = rag_status(rag_system)]
  /\ UNCHANGED <<rag_system, rag_initialized, claude_prompts>>
  /\ UNCHANGED <<server_vars, lib_vars>>

\* the REPL's rag-search, with limit 3
SearchDocumentation ==
  /\ \E search \in SearchAnswers(IF rag_system.some
                                 THEN Cardinality(rag_system.v.index) ELSE 0) :
       agent_last' = search_documentation(rag_system, search)
  /\ UNCHANGED <<rag_system, rag_initialized, claude_prompts>>
  /\ UNCHANGED <<server_vars, lib_vars>>

ProcessCommand ==
  /\ claude_prompts < MaxPrompts
  /\ \E user_input \in UserInputs :
       \E claude_ok \in (IF is_general_question(user_input) THEN {TRUE} ELSE BOOLEAN),
          search \in (IF rag_system.some /\ is_documentation_query(user_input)
                      THEN SearchAnswers(Cardinality(rag_system.v.index))
                      ELSE {[ok |-> TRUE, results |-> <<>>]}) :
         /\ agent_last' = process_command(rag_system, user_input, search, claude_ok)
         /\ claude_prompts' = IF agent_last'.prompt.some
                              THEN claude_prompts + 1 ELSE claude_prompts
  /\ UNCHANGED <<rag_system, rag_initialized>>
  /\ UNCHANGED <<server_vars, lib_vars>>

NextAgent == InitializeRagSystem \/ RagStatus \/ SearchDocumentation \/ ProcessCommand

SpecAgent == InitAgent /\ [][NextAgent]_vars

(* ---------------------- documentation library actions ------------------ *)

\* the documents a source can fetch
RawDocuments == {
  RawDocument_new(<<"#"," ","A","\n","t","e","x","t">>, TRUE, <<"g","u","i","d","e",".","m","d">>, "Markdown"),
  RawDocument_new(<<"\n","#"," ","B","\n","m","o","r","e">>, TRUE, <<"g","u","i","d","e",".","m","d">>, "Markdown"),
  RawDocument_new(<<"i","n","t","r","o"," ","-","\n"," "," ","#"," ","x","\n","#","\n","\n"," "," ","y"," "," ">>, TRUE, <<"i","n","t","r","o",".","m","d">>, "Markdown"),
  RawDocument_new(<<"c","o","n","t","r","a","c","t"," ","P"," ","{","\n"," ","f","u","n","c","t","i","o","n"," ","f","(",")"," ","{","}","\n","}">>, TRUE, <<"P",".","s","o","l">>, "Solidity"),
  RawDocument_new(<<" "," ","n","o","t","e","s","\n">>, TRUE, <<"n","o","t","e","s",".","t","x","t">>, "Other"),
  RawDocument_new(<<>>, TRUE, <<"e","m","p","t","y",".","m","d">>, "Markdown"),
  RawDocument_new(<<"p","l","a","i","n"," ","t","e","x","t">>, TRUE, <<"p","l","a","i","n",".","m","d">>, "Markdown"),
  RawDocument_new(<<"#"," ","b","y","t","e","s">>, FALSE, <<"b","y","t","e","s",".","m","d">>, "Markdown") }

\* the strings a caller looks a document up by
StoreKeys == { d.metadata.title : d \in RawDocuments } \cup { d.checksum : d \in RawDocuments }

InitLib ==
  /\ alice_private_key = <<>>
  /\ server = "BlockchainService"
  /\ node = [h \in Slots |-> UnsentSlot]
  /\ request = NoRequest
  /\ last = NoCall
  /\ rag_system = NoneV
  /\ rag_initialized = FALSE
  /\ claude_prompts = 0
  /\ agent_last = NoCommand
  /\ doc_store = {}
  /\ uniswap_rag = UniswapRagSystem_new
  /\ lib_last = NoLibCall

StoreDocument ==
  /\ \E raw \in RawDocuments :
       \E p \in { process(raw) } :
         /\ p.ok
         /\ doc_store' = store_document(doc_store, p.document.v)
         /\ lib_last' = [NoLibCall EXCEPT !.op = "store_document", !.result = "ok",
                                          !.doc = p.document]
  /\ UNCHANGED uniswap_rag
  /\ UNCHANGED <<server_vars, agent_vars>>

GetDocument ==
  /\ \E key \in StoreKeys :
       lib_last' = [NoLibCall EXCEPT !.op = "get_document", !.result = "ok", !.key = key,
                                     !.found = get_document(doc_store, key)]
  /\ UNCHANGED <<doc_store, uniswap_rag>>
  /\ UNCHANGED <<server_vars, agent_vars>>

ListDocuments ==
  /\ lib_last' = [NoLibCall EXCEPT !.op = "list_documents", !.result = "ok",
                                   !.listed = list_documents(doc_store)]
  /\ UNCHANGED <<doc_store, uniswap_rag>>
  /\ UNCHANGED <<server_vars, agent_vars>>

DeleteDocument ==
  /\ \E key \in StoreKeys :
       /\ doc_store' = delete_document(doc_store, key)
       /\ lib_last' = [NoLibCall EXCEPT !.op = "delete_document", !.result = "ok",
                                        !.key = key]
  /\ UNCHANGED uniswap_rag
  /\ UNCHANGED <<server_vars, agent_vars>>

LoadDocumentation ==
  /\ \E exists \in BOOLEAN, n \in 0..MaxDocs, embeds \in BOOLEAN :
       \E r \in { load_documentation(uniswap_rag, exists, Files(n), embeds) } :
         /\ uniswap_rag' = r.rag
         /\ lib_last' = [NoLibCall EXCEPT !.op = "load_documentation",
                                          !.result = IF r.ok THEN "ok" ELSE "RagError",
                                          !.count_before = document_count(uniswap_rag)]
  /\ UNCHANGED doc_store
  /\ UNCHANGED <<server_vars, agent_vars>>

AddSampleDocumentation ==
  /\ \E embeds \in BOOLEAN :
       \E r \in { add_sample_documentation(uniswap_rag, embeds) } :
         /\ uniswap_rag' = r.rag
         /\ lib_last' = [NoLibCall EXCEPT !.op = "add_sample_documentation",
                                          !.result = IF r.ok THEN "ok" ELSE "RagError",
                                          !.count_before = document_count(uniswap_rag)]
  /\ UNCHANGED doc_store
  /\ UNCHANGED <<server_vars, agent_vars>>

\* largest number of sources of a pipeline
MaxSources == 2

\* the sources of a pipeline: what has_updates and fetch_documents return
Sources ==
  LET first == << RawDocument_new(<<>>, TRUE, <<"e","m","p","t","y",".","m","d">>, "Markdown"),
                  RawDocument_new(<<"#"," ","A","\n","t","e","x","t">>, TRUE, <<"g","u","i","d","e",".","m","d">>, "Markdown"),
                  RawDocument_new(<<"#"," ","b","y","t","e","s">>, FALSE, <<"b","y","t","e","s",".","m","d">>, "Markdown") >>
      second == << RawDocument_new(<<"c","o","n","t","r","a","c","t"," ","P"," ","{","\n"," ","f","u","n","c","t","i","o","n"," ","f","(",")"," ","{","}","\n","}">>, TRUE, <<"P",".","s","o","l">>,
                                   "Solidity"),
                   RawDocument_new(<<"\n","#"," ","B","\n","m","o","r","e">>, TRUE, <<"g","u","i","d","e",".","m","d">>, "Markdown") >>
  IN  { [has_updates |-> "err", fetch_ok |-> TRUE, documents |-> <<>>],
        [has_updates |-> "false", fetch_ok |-> TRUE, documents |-> first],
        [has_updates |-> "true", fetch_ok |-> FALSE, documents |-> <<>>],
        [has_updates |-> "true", fetch_ok |-> TRUE, documents |-> first],
        [has_updates |-> "true", fetch_ok |-> TRUE, documents |-> second] }

SourceLists == UNION { [1..n -> Sources] : n \in 0..MaxSources }

Run ==
  /\ \E sources \in SourceLists, store_fails \in { {}, { <<"P",".","s","o","l">> } } :
       \E r \in { run(sources, doc_store, store_fails) } :
         /\ doc_store' = r.docs
         /\ lib_last' = [NoLibCall EXCEPT !.op = "run", !.result = r.result,
                                          !.error = r.error, !.stats = r.stats,
                                          !.sources = sources,
                                          !.store_fails = store_fails]
  /\ UNCHANGED uniswap_rag
  /\ UNCHANGED <<server_vars, agent_vars>>

SearchQueries == { <<"s","l","i","p","p","a","g","e"," ","c","a","l","c","u","l","a","t","i","o","n">>, <<"H","o","w"," ","d","o"," ","I"," ","c","a","l","c","u","l","a","t","e"," ","s","l","i","p","p","a","g","e"," ","f","o","r"," ","U","n","i","s","w","a","p"," ","V","3","?">>,
                   <<"S","h","o","w"," ","m","e"," ","t","h","e"," ","S","w","a","p","R","o","u","t","e","r"," ","c","o","n","t","r","a","c","t"," ","i","n","t","e","r","f","a","c","e">> }

\* UniswapRagSystem::search: up to limit documents of the index
Search ==
  /\ \E query \in SearchQueries, limit \in 1..3, ok \in BOOLEAN :
       \E found \in { f \in SUBSET uniswap_rag.index : Cardinality(f) <= limit } :
         lib_last' = [NoLibCall EXCEPT !.op = "search", !.key = query, !.limit = limit,
                                       !.result = IF ok THEN "ok" ELSE "RagError",
                                       !.listed = IF ok THEN found ELSE {},
                                       !.count_before = document_count(uniswap_rag)]
  /\ UNCHANGED <<doc_store, uniswap_rag>>
  /\ UNCHANGED <<server_vars, agent_vars>>

NextLib == StoreDocument \/ GetDocument \/ ListDocuments \/ DeleteDocument \/ Run

NextRag == LoadDocumentation \/ AddSampleDocumentation \/ Search

SpecLib == InitLib /\ [][NextLib]_vars

SpecRag == InitLib /\ [][NextRag]_vars

(* ================================ properties ============================ *)

DecimalDigits == Range(SubSeq(DigitChars36, 1, 10))

\* a non-negative decimal amount: digits with at most one '.', at least one
\* digit, at most 18 digits after the '.'
IsDecimalAmount(a) ==
  LET dots == {i \in 1..Len(a) : a[i] = "."}
  IN  /\ \A i \in 1..Len(a) : a[i] \in DecimalDigits \cup {"."}
      /\ Cardinality(dots) <= 1
      /\ Len(a) > Cardinality(dots)
      /\ \A i \in dots : Len(a) - i <= 18

\* the amount in ETH times 10^18
EthToWei(a) ==
  LET dots == {i \in 1..Len(a) : a[i] = "."}
      dot == CHOOSE i \in dots : TRUE
      whole == IF dots = {} THEN a ELSE SubSeq(a, 1, dot - 1)
      frac == IF dots = {} THEN <<>> ELSE SubSeq(a, dot + 1, Len(a))
      chars == whole \o frac \o Repeat("0", 18 - Len(frac))
  IN  Normalize([i \in 1..Len(chars) |-> DigitValueOf[chars[i]]])

IsHexAddress(t) ==
  LET h == IF Len(t) >= 2 /\ SubSeq(t, 1, 2) = <<"0","x">> THEN SubSeq(t, 3, Len(t)) ELSE t
  IN  Len(h) = 40 /\ \A i \in 1..40 : char_to_lowercase(h[i]) \in HexDigitSet
AddressOfAccount(i) ==
  LET a == available_addresses[i + 1] IN to_lowercase(SubSeq(a, 3, Len(a)))
\* the anvil account a known account name stands for
AccountOfName(name) ==
  IF name = <<"a","l","i","c","e">> THEN 0
  ELSE IF name = <<"b","o","b">> THEN 1
  ELSE DigitValueOf[name[Len(name)]]

\* C1: send_eth calls Cast::send at most once, and only after the recipient
\* has been validated, with a non-empty private key and a parsed amount;
\* otherwise no transaction is submitted.
C1_SendOnlyWhenValid ==
  last.tool = "send_eth" =>
    /\ Len(last.sends) <= 1
    /\ last.sends # <<>> =>
         /\ last.validated.ok
         /\ alice_private_key # <<>>
         /\ send_eth_amount_wei(last.req.amount).ok
    /\ (~last.validated.ok \/ alice_private_key = <<>>
          \/ ~send_eth_amount_wei(last.req.amount).ok) => last.sends = <<>>
    /\ \A i \in 1..Len(last.sends) : last.sends[i].to = last.validated.resolved_address
C1_Witness ==
  /\ last.tool = "send_eth"
  /\ Len(last.sends) = 1
  /\ last.result = "ok"

\* C2: send_eth sends the requested decimal amount of ETH times 10^18 as the
\* value in wei, fractional amounts included.
C2_ValueIsAmountTimes1e18 ==
  (last.tool = "send_eth" /\ last.sends # <<>> /\ IsDecimalAmount(last.req.amount)) =>
    last.sends[1].value = Some(EthToWei(last.req.amount))

\* C3: the input of the transaction swap_tokens sends to the Uniswap V2 Router
\* is the ABI encoding that calldata_encode returns, so it starts with the
\* selector 7ff36ab5 of swapExactETHForTokens.
SwapSelectorBytes ==
  hex_decode(Selector["swapExactETHForTokens(uint256,address[],address,uint256)"]).bytes
C3_RouterInputIsAbiEncoding ==
  (/\ last.tool = "swap_tokens"
   /\ last.sends # <<>>
   /\ last.sends[1].to = Address_from_str(router_address).value) =>
    /\ last.sends[1].input.some
    /\ Len(last.sends[1].input.v) >= 4
    /\ SubSeq(last.sends[1].input.v, 1, 4) = SwapSelectorBytes

KnownTokenSymbols == { <<"e","t","h">>, <<"w","e","t","h">>, <<"u","s","d","c">>, <<"u","s","d","t">>, <<"d","a","i">>, <<"l","i","n","k">>, <<"u","n","i">> }
IsKnownToken(t) == to_lowercase(t) \in KnownTokenSymbols
WethAddress == to_lowercase(SubSeq(weth_address, 3, Len(weth_address)))
RouterAddress == <<"7","a","2","5","0","d","5","6","3","0","b","4","c","f","5","3","9","7","3","9","d","f","2","c","5","d","a","c","b","4","c","6","5","9","f","2","4","8","8","d">>

C5_KeyNotRevealed ==
  /\ \A i \in 1..Len(last.accounts) :
       last.accounts[i].private_key.some =>
         /\ last.tool = "get_private_keys"
         /\ i = 1
         /\ Len(alice_private_key) >= 10
         /\ last.accounts[i].private_key.v = SubSeq(alice_private_key, 1, 10) \o <<".",".",".">>
  /\ (last.tool = "get_private_keys" /\ last.result = "ok" /\ alice_private_key # <<>>) =>
       last.accounts[1].private_key.some
  /\ (last.tool \in {"get_accounts", "get_private_keys"} /\ last.result = "ok") =>
       Len(last.accounts) = 10
C5_Witness ==
  /\ last.tool = "get_private_keys"
  /\ last.result = "ok"
  /\ Len(alice_private_key) > 10
  /\ last.accounts[1].private_key.some

\* C6: a recipient that is 'alice', 'bob' or 'accountN' (0 <= N <= 9) after
\* trimming and lower-casing is accepted and resolves to anvil account 0, 1
\* or N.
C6_KnownNamesResolve ==
  (last.tool = "send_eth" /\ to_lowercase(trim(last.req.to)) \in KnownNames) =>
    /\ last.validated.ok
    /\ last.validated.resolved_address =
         AddressOfAccount(AccountOfName(to_lowercase(trim(last.req.to))))
C6_Witness ==
  /\ last.tool = "send_eth"
  /\ last.req.to = <<"B","O","B">>
  /\ last.validated.ok
  /\ last.validated.resolved_address = AddressOfAccount(1)

\* C7: validate_recipient_address accepts exactly a hex address, else a name
\* containing '.' that resolves, else a known account name; everything else
\* is invalid_params, and a name containing '.' that does not resolve is not
\* looked up among the account names.
C7_ValidationOrder ==
  last.tool = "send_eth" =>
    LET t == trim(last.req.to)
        hex == IsHexAddress(t)
        dotted == InSeq(".", t)
        known == to_lowercase(t) \in KnownNames
    IN  /\ last.validated.ok <=>
             \/ hex
             \/ ~hex /\ dotted /\ last.env.ens = "resolves"
             \/ ~hex /\ ~dotted /\ known
        /\ (last.validated.ok /\ hex) => last.validated.address_type = "Ethereum Address"
        /\ (last.validated.ok /\ ~hex /\ dotted) =>
             last.validated.address_type = "ENS Name (resolved)"
        /\ ~last.validated.ok => (last.result = "invalid_params" /\ last.sends = <<>>)
C7_Witness ==
  /\ last.tool = "send_eth"
  /\ last.req.to = <<"a","l","i","c","e",".">>
  /\ last.env.ens = "fails"
  /\ last.result = "invalid_params"

\* what the node says of the transaction a status check asks about
StatusTimeout == IF last.req.timeout.some THEN last.req.timeout.v ELSE 30
MalformedHash ==
  LET t == last.req.tx_hash
      h == IF Len(t) >= 2 /\ SubSeq(t, 1, 2) = <<"0","x">> THEN SubSeq(t, 3, Len(t)) ELSE t
  IN  ~(Len(h) = 64 /\ \A i \in 1..64 : char_to_lowercase(h[i]) \in HexDigitSet)
MinedBefore == last.env.before.st = "mined"
MinedInTime ==
  /\ last.env.before.st = "pending"
  /\ last.env.before.delay # Never
  /\ last.env.before.delay <= StatusTimeout
ReceiptObtained ==
  /\ last.env.receipt_rpc = "ok"
  /\ MinedBefore \/ (MinedInTime /\ last.env.wait # "rpc")
NodeKnows == last.env.before.st \in {"pending", "mined"}
StatusOutcome ==
  /\ MalformedHash <=> last.result = "invalid_params"
  /\ ~MalformedHash =>
       /\ (last.result = "ok" /\ last.status \in {"SUCCESS", "FAILED"}) <=> ReceiptObtained
       /\ ReceiptObtained =>
            last.status = IF last.env.before.success THEN "SUCCESS" ELSE "FAILED"
       /\ (last.result = "ok" /\ last.status = "PENDING") <=>
            (~ReceiptObtained /\ last.env.by_hash_rpc = "ok" /\ NodeKnows)
       /\ (last.result = "ok" /\ last.status = "NOT FOUND") <=>
            (~ReceiptObtained /\ last.env.by_hash_rpc = "ok" /\ ~NodeKnows)

\* C8 as stated: the status is SUCCESS or FAILED exactly when a receipt is
\* obtained, PENDING or NOT FOUND exactly when none is obtained and the node
\* knows or does not know the transaction, a malformed hash is
\* invalid_params and every RPC failure is internal_error.
C8_EveryRpcFailureIsInternalError ==
  (last.tool = "check_transaction_status" /\ last.result # "tool_not_found") =>
    /\ StatusOutcome
    /\ ("fail" \in {last.env.receipt_rpc, last.env.by_hash_rpc} \/ last.env.wait = "rpc")
         <=> last.result = "internal_error"

\* C8 as amended: as above, but only a failure of get_transaction_receipt or
\* of get_transaction_by_hash is internal_error; a failure while waiting for
\* the receipt counts as no receipt obtained.
C8_StatusReport ==
  (last.tool = "check_transaction_status" /\ last.result # "tool_not_found") =>
    /\ StatusOutcome
    /\ ("fail" \in {last.env.receipt_rpc, last.env.by_hash_rpc})
         <=> last.result = "internal_error"
C8_Witness ==
  /\ last.tool = "check_transaction_status"
  /\ last.env.wait = "rpc"
  /\ last.result = "ok"
  /\ last.status = "PENDING"

\* C9: CombinedService exposes every tool of BlockchainService and
\* SearchService, so the tool a response tells the caller to use is there
\* and no call of such a tool is refused.
C9_CombinedExposesAll ==
  server = "CombinedService" =>
    /\ last.advises \subseteq ToolRouter(server)
    /\ last.result = "tool_not_found" => last.tool \notin (BlockchainTools \cup SearchTools)

\* C10: whenever the RAG system is initialized, the input is classified as a
\* documentation query and the search returns at least one document,
\* process_command sends Claude the input followed by the documentation
\* context; so it does for the triggers the system prompt names.
RagTriggers == { <<"H","o","w"," ","d","o","e","s"," ","U","n","i","s","w","a","p"," ","V","2"," ","w","o","r","k","?">>, <<"U","n","i","s","w","a","p"," ","V","3"," ","d","o","c","u","m","e","n","t","a","t","i","o","n">>,
                 <<"E","x","p","l","a","i","n"," ","U","n","i","s","w","a","p"," ","s","l","i","p","p","a","g","e">>, <<"U","n","i","s","w","a","p"," ","V","2"," ","t","u","t","o","r","i","a","l">> }
C10_DocumentationReachesClaude ==
  /\ (agent_last.rag /\ agent_last.documentation /\ agent_last.search = "found") =>
       /\ agent_last.prompt.some
       /\ starts_with(agent_last.prompt.v,
                      agent_last.input.v \o <<"\n","\n","\n","\n","R","E","L","E","V","A","N","T"," ","U","N","I","S","W","A","P"," ","D","O","C","U","M","E","N","T","A","T","I","O","N",":","\n">>)
       /\ \A i \in 1..Len(agent_last.results) :
            contains(agent_last.prompt.v, agent_last.results[i].content)
  /\ (agent_last.input.some /\ agent_last.input.v \in RagTriggers) =>
       agent_last.documentation

\* C11: for every input that contains one of the general patterns in any
\* letter case, process_command answers Ok with one of the canned answers and
\* makes no Claude prompt and no tool round; for every other input it makes a
\* Claude prompt with at most 5 tool rounds and returns Claude's answer or a
\* ClaudeApi error.
GeneralInput(input) ==
  \E i \in 1..Len(general_patterns) : contains(to_lowercase(input), general_patterns[i])
CannedAnswers == { "tools", "how it works", "mcp", "rag", "assistant" }
DocsKeywords == { <<"d","o","c","s">>, <<"d","o","c","u","m","e","n","t","a","t","i","o","n">>, <<"g","u","i","d","e">>, <<"t","u","t","o","r","i","a","l">> }
QuestionWords == { <<"h","o","w"," ","d","o"," ","i">>, <<"h","o","w"," ","t","o">>, <<"w","h","a","t"," ","i","s">>, <<"w","h","a","t","'","s">>, <<"e","x","p","l","a","i","n">>, <<"s","h","o","w"," ","m","e">>,
                   <<"t","e","l","l"," ","m","e">>, <<"d","e","s","c","r","i","b","e">>, <<"w","h","a","t"," ","d","o","e","s">>, <<"d","i","f","f","e","r","e","n","c","e"," ","b","e","t","w","e","e","n">>,
                   <<"c","a","l","c","u","l","a","t","e">>, <<"c","o","m","p","u","t","e">> }
UniswapTerms == { <<"u","n","i","s","w","a","p">>, <<"s","l","i","p","p","a","g","e">>, <<"e","x","a","c","t","i","n","p","u","t">>, <<"e","x","a","c","t","o","u","t","p","u","t">>, <<"r","o","u","t","e","r">>,
                  <<"f","a","c","t","o","r","y">>, <<"p","a","i","r">>, <<"p","o","o","l">>, <<"l","i","q","u","i","d","i","t","y">>, <<"o","r","a","c","l","e">>, <<"f","l","a","s","h">>,
                  <<"c","a","l","l","b","a","c","k">>, <<"m","u","l","t","i","c","a","l","l">>, <<"p","e","r","m","i","t">>, <<"s","i","g","n","a","t","u","r","e">>, <<"e","i","p","7","1","2">>,
                  <<"d","e","a","d","l","i","n","e">>, <<"g","a","s">>, <<"e","v","e","n","t">>, <<"e","r","r","o","r">>, <<"r","e","v","e","r","t">> }
VersionTerms == { <<"v","2">>, <<"v","3">>, <<"v","4">> }
Mentions(input, words) == \E w \in words : contains(to_lowercase(input), w)
QuestionFormat(input) ==
  Mentions(input, {<<"?">>}) \/ Mentions(input, DocsKeywords) \/ Mentions(input, QuestionWords)
UniswapRelated(input) == Mentions(input, UniswapTerms) \/ Mentions(input, VersionTerms)
DeploymentCheck(input) ==
  /\ Mentions(input, {<<"d","e","p","l","o","y","e","d">>})
  /\ Mentions(input, {<<"i","s">>, <<"c","h","e","c","k">>})
  /\ ~Mentions(input, DocsKeywords) /\ ~Mentions(input, QuestionWords)
StatusText(n) ==
  <<"R","A","G"," ","S","y","s","t","e","m",":"," ">> \o u256_to_string(NatDigits(n)) \o <<" ","d","o","c","u","m","e","n","t","s"," ","i","n","d","e","x","e","d">>
C13_RagStatusFollowsInitialization ==
  /\ agent_last.op = "rag_status" =>
       /\ agent_last.status.some <=> rag_initialized
       /\ agent_last.status.some =>
            \E n \in 1..(SampleDocuments + MaxDocs) : agent_last.status.v = StatusText(n)
  /\ (agent_last.op = "search_documentation" /\ ~rag_initialized) =>
       /\ agent_last.result = "RagError"
       /\ agent_last.answer = "RAG system not initialized"
  /\ (agent_last.op = "search_documentation" /\ rag_initialized) =>
       agent_last.answer # "RAG system not initialized"
C13_Witness ==
  /\ rag_initialized
  /\ agent_last.op = "rag_status"
  /\ agent_last.status = Some(StatusText(SampleDocuments))

\* C14: in InMemoryDocStore a stored document is returned by get_document
\* called with its checksum, and delete_document called with its checksum
\* removes it.
C14_StoreKeyedByChecksum ==
  /\ lib_last.op = "get_document" =>
       \A d \in doc_store : d.checksum = lib_last.key => lib_last.found = Some(d)
  /\ lib_last.op = "delete_document" =>
       \A d \in doc_store : d.checksum # lib_last.key

\* C15: after a successful add_sample_documentation, document_count() is
\* greater than zero and equals the number of documents in the index, the 4
\* sample documents, whatever was indexed before.
C15_SampleCountMatchesIndex ==
  (lib_last.op = "add_sample_documentation" /\ lib_last.result = "ok") =>
    /\ document_count(uniswap_rag) > 0
    /\ document_count(uniswap_rag) = Cardinality(uniswap_rag.index)
    /\ uniswap_rag.index = Range(sample_docs)
    /\ Cardinality(uniswap_rag.index) = 4
C15_Witness ==
  /\ lib_last.op = "add_sample_documentation"
  /\ lib_last.result = "ok"
  /\ lib_last.count_before = 2
  /\ document_count(uniswap_rag) = 4

\* C16: in run a document that fails validation, processing or storing is
\* counted as failed and the documents after it, of its source and of the
\* later sources, are still processed; a source whose has_updates or
\* fetch_documents fails makes run return Err without statistics, and the
\* documents stored from the earlier sources stay in the store.
SourceFails(source) ==
  source.has_updates = "err" \/ (source.has_updates = "true" /\ ~source.fetch_ok)
RECURSIVE FetchedBeforeFailure(_)
FetchedBeforeFailure(sources) ==
  IF sources = <<>> THEN <<>>
  ELSE IF SourceFails(Head(sources)) THEN <<>>
  ELSE (IF Head(sources).has_updates = "true" THEN Head(sources).documents ELSE <<>>)
       \o FetchedBeforeFailure(Tail(sources))
Accepted(doc, store_fails) == process(doc).ok /\ doc.metadata.title \notin store_fails
StoreAfter(docs, fetched, store_fails) ==
  LET lastOf(title) ==
        { i \in 1..Len(fetched) :
            /\ fetched[i].metadata.title = title
            /\ Accepted(fetched[i], store_fails)
            /\ \A j \in (i + 1)..Len(fetched) :
                 ~(fetched[j].metadata.title = title /\ Accepted(fetched[j], store_fails)) }
      titles == { fetched[i].metadata.title :
                    i \in { k \in 1..Len(fetched) : Accepted(fetched[k], store_fails) } }
  IN  { d \in docs : d.metadata.title \notin titles }
      \cup { process(fetched[i]).document.v : i \in UNION { lastOf(t) : t \in titles } }
C16_RunIsolatesDocumentFailures ==
  [][ lib_last'.op = "run" =>
        LET sources == lib_last'.sources
            store_fails == lib_last'.store_fails
            fetched == FetchedBeforeFailure(sources)
            failed == { i \in 1..Len(fetched) : ~Accepted(fetched[i], store_fails) }
        IN  /\ doc_store' = StoreAfter(doc_store, fetched, store_fails)
            /\ IF \E i \in 1..Len(sources) : SourceFails(sources[i])
               THEN lib_last'.result = "Err" /\ lib_last'.stats = NoneV
               ELSE /\ lib_last'.result = "ok"
                    /\ lib_last'.stats.some
                    /\ lib_last'.stats.v.total_documents = Len(fetched)
                    /\ lib_last'.stats.v.failed_documents = Cardinality(failed)
                    /\ lib_last'.stats.v.successful_documents
                         = Len(fetched) - Cardinality(failed)
                    /\ Len(lib_last'.stats.v.errors) = Cardinality(failed) ]_vars
C16_Witness ==
  /\ lib_last.op = "run"
  /\ lib_last.result = "Err"
  /\ Len(lib_last.sources) = 2
  /\ lib_last.sources[1].has_updates = "true" /\ lib_last.sources[1].fetch_ok
  /\ Len(lib_last.sources[1].documents) = 3
  /\ SourceFails(lib_last.sources[2])
  /\ \E d \in doc_store : d.metadata.title = <<"g","u","i","d","e",".","m","d">> /\ d.content = <<"#"," ","A","\n","t","e","x","t">>

(* ------------------------------- C17 ------------------------------------ *)

IsDigits(s) == \A i \in 1..Len(s) : s[i] \in Range(<<"0","1","2","3","4","5","6","7","8","9">>)
DigitsOf(s) == [i \in 1..Len(s) |-> digit_value(s[i])]
\* the printed amount: the formatted balance without the trailing " SYMBOL"
PrintedAmount ==
  SubSeq(last.formatted_balance, 1, Len(last.formatted_balance) - Len(last.symbol) - 1)
\* w.f with f of exactly d digits and w * 10^d + f = b: the digits of w
\* followed by the d digits of f are the digits of b
WholeAndFraction(text, d, b) ==
  \E p \in 1..Len(text) :
    LET w == SubSeq(text, 1, p - 1)
        f == SubSeq(text, p + 1, Len(text))
    IN  /\ text[p] = "."
        /\ w # <<>> /\ IsDigits(w) /\ IsDigits(f)
        /\ Normalize(DigitsOf(w)) = DigitsOf(w)
        /\ Len(f) = d
        /\ Normalize(DigitsOf(w) \o DigitsOf(f)) = b

\* C17: for 1 <= d <= 77 decimals the formatted balance of a raw balance b is
\* 'w.f' with f zero-padded to exactly d digits and w * 10^d + f = b; for
\* d = 0 the raw balance is printed without a decimal point
C17_FormattedBalance ==
  (last.tool = "token_balance" /\ last.result = "ok") =>
    /\ last.formatted_balance = PrintedAmount \o <<" ">> \o last.symbol
    /\ last.decimals \in 1..77 =>
          WholeAndFraction(PrintedAmount, last.decimals, last.balance)
    /\ last.decimals = 0 => PrintedAmount = u256_to_string(last.balance)

\* a balance whose fraction needs padding, and the largest balance at 77 decimals
C17_Witness ==
  /\ last.tool = "token_balance" /\ last.result = "ok"
  /\ \/ last.balance = <<1,0,0,0,0,0,1>> /\ last.decimals = 6
        /\ PrintedAmount = <<"1",".","0","0","0","0","0","1">>
     \/ last.balance = U256_MAX /\ last.decimals = 77
        /\ SubSeq(PrintedAmount, 1, 3) = <<"1",".","1">>

(* ------------------------------- C18 ------------------------------------ *)

NonBlank(line) == trim(line) # <<>>
\* the non-blank lines of a text, each without its surrounding white space
NonBlankLines(text) ==
  LET kept == SelectSeq(lines(text), NonBlank)
  IN  [i \in 1..Len(kept) |-> trim(kept[i])]
RECURSIVE NonBlankLinesOfAll(_)
NonBlankLinesOfAll(chunks) ==
  IF chunks = <<>> THEN <<>>
  ELSE NonBlankLines(Head(chunks)) \o NonBlankLinesOfAll(Tail(chunks))

\* C18: the chunks chunk_markdown returns for a stored Markdown document are
\* all non-empty, every chunk after the first begins with '#', and the
\* non-blank lines of the document appear in the chunks in order, each once
C18_ChunkMarkdownPartitions ==
  (/\ lib_last.op = "store_document" /\ lib_last.doc.some
   /\ lib_last.doc.v.metadata.doc_type = "Markdown") =>
    LET chunks == lib_last.doc.v.chunks
    IN  /\ \A i \in 1..Len(chunks) : chunks[i] # <<>>
        /\ \A i \in 2..Len(chunks) : starts_with(chunks[i], <<"#">>)
        /\ NonBlankLinesOfAll(chunks) = NonBlankLines(lib_last.doc.v.content)

(* ------------------------------- C19 ------------------------------------ *)

\* C19: test_rag_logic, the copy of the classification the tests exercise,
\* gives for every input the result BlockchainAgent::is_documentation_query
\* gave in process_command
C19_TestCopyAgrees ==
  agent_last.input.some =>
    (test_rag_logic(agent_last.input.v) <=> agent_last.documentation)

\* both say yes for a question that only a version term relates to Uniswap
C19_Witness ==
  /\ agent_last.input = Some(<<"V","4"," ","h","o","o","k","s","?">>)
  /\ agent_last.documentation /\ test_rag_logic(agent_last.input.v)

====
